---- MODULE Spec2Model ----
(***************************************************************************)
(* Model of the miner of kernel/engines/xuperos (package miner): the       *)
(* mining loop Start, the ingress ProcBlock, the sync engine trySyncBlock  *)
(* / syncBlock / downloadMissBlock / batchConfirmBlock, the block packer   *)
(* packBlock, the confirm pipeline confirmBlockForMiner and the side-table *)
(* handlers ReadTermTable, UpdateCacheTable, GetThawTx and ClearThawTx.    *)
(* The ledger, the state machine, the consensus plug-in and the network    *)
(* are collaborators: each call on them is a nondeterministic choice over  *)
(* the outcomes its contract allows.                                       *)
(***************************************************************************)
EXTENDS Integers, Sequences, FiniteSets, TLC

----------------------------------------------------------------------------
(* Bounds of the model *)

\* highest block height the mining loop and the pushes of the network reach (the
\* run of the un-bonding schedule pushes one block above it)
MaxHeight == 2
\* highest consensus term
MaxTerm == 3
\* longest response list of one confirmation probe
MaxMsgs == 9
\* longest mempool
MaxMempool == 3
\* largest size of one transaction
MaxTxSize == 2
\* the calls of the cycle watcher counted in one term
MaxCalls == 2

\* EngCfg.MaxBlockQueueSize, the admission cap of ProcBlock
MaxBlockQueueSize == 2

----------------------------------------------------------------------------
(* Blocks.  A block id is the path of the block from the genesis block:    *)
(* every step is "m" (a block this miner packed) or "n" (a block of the    *)
(* network).  The empty sequence is the empty hash.                        *)

NilHash == <<>>
Genesis == <<"g">>
Tags == {"m", "n"}

RECURSIVE IdsOfHeight(_)
IdsOfHeight(h) ==
    IF h = 0 THEN {Genesis}
    ELSE {Append(p, x) : p \in IdsOfHeight(h - 1), x \in Tags}

BlockIds == UNION {IdsOfHeight(h) : h \in 0..MaxHeight}

HeightOf(id) == Len(id) - 1
PreOf(id) == IF Len(id) <= 1 THEN NilHash ELSE SubSeq(id, 1, Len(id) - 1)

\* lpb.InternalBlock: the fields the miner reads
Blk(id) == [blockid |-> id, preHash |-> PreOf(id), height |-> HeightOf(id)]

\* a nil *lpb.InternalBlock: its getters return the zero values
NilBlock == [blockid |-> NilHash, preHash |-> NilHash, height |-> 0]

\* a is b or an ancestor of b
IsPrefix(a, b) == Len(a) <= Len(b) /\ SubSeq(b, 1, Len(a)) = a

\* the blocks of the network: the chain of "n" blocks over the genesis block
NetIds == {id \in BlockIds : id # Genesis /\ \A k \in 2..Len(id) : id[k] = "n"}

----------------------------------------------------------------------------
(* Threads *)

LoopT == "loop"
Ingress == {"i1", "i2"}
\* the control thread that calls Stop
CtlT == "ctl"
Free == "free"

VARIABLES
    \* Ledger (collaborator)
    ledgerBlocks,          \* ids of the blocks confirmed into the ledger
    ledgerTip,             \* GetMeta().TipBlockid
    pending,               \* pending blocks (SavePendingBlock)
    \* State machine (collaborator)
    stateLatest,           \* GetLatestBlockid()
    \* Miner fields
    minerMutex,            \* the thread that holds minerMutex, or Free
    minerQueue,
    inSyncTargetHeight,
    inSyncTargetBlockId,
    isExit,
    \* control
    pc,                    \* position of every thread
    lv,                    \* locals of Start
    mv,                    \* locals of mining
    sv,                    \* locals of trySyncBlock .. batchConfirmBlock, per thread
    iv,                    \* arguments and result of ProcBlock, per ingress thread
    \* Side tables
    curTerm,               \* GetConsensusStatus().GetCurrentTerm()
    confirmedTable,        \* Ledger.ConfirmedTable: key -> value
    confirmBatch,          \* Ledger.ConfirmBatch: writes staged and not committed
    \* history
    hist,                  \* what the claims observe of past calls
    \* inputs and results of the handlers checked on their own
    probe

vars == <<ledgerBlocks, ledgerTip, pending, stateLatest, minerMutex, minerQueue,
          inSyncTargetHeight, inSyncTargetBlockId, isExit, pc, lv, mv, sv, iv,
          curTerm, confirmedTable, confirmBatch, hist, probe>>

ledgerVars == <<ledgerBlocks, ledgerTip, pending>>
syncFields == <<inSyncTargetHeight, inSyncTargetBlockId>>
tableVars == <<confirmedTable, confirmBatch>>

TrunkHeight == HeightOf(ledgerTip)
ExistBlock(id) == id \in ledgerBlocks

----------------------------------------------------------------------------
(* Collaborators: the outcomes one call can have *)

\* Ledger.ConfirmBlock(block, false): a failure, or the block joins the ledger;
\* it becomes the tip when it extends the tip or is higher than the trunk, and is
\* an orphan otherwise
ConfirmBlock(block) ==
    {[succ |-> FALSE, orphan |-> FALSE, blocks |-> ledgerBlocks, tip |-> ledgerTip]}
    \cup
    IF block.preHash \in ledgerBlocks /\ block.blockid \notin ledgerBlocks
    THEN LET trunk == block.preHash = ledgerTip \/ block.height > TrunkHeight
         IN {[succ |-> TRUE, orphan |-> ~trunk,
              blocks |-> ledgerBlocks \cup {block.blockid},
              tip |-> IF trunk THEN block.blockid ELSE ledgerTip]}
    ELSE {}

\* Ledger.Truncate(target): a failure, or every descendant of target is discarded
Truncate(target) ==
    {[ok |-> FALSE, blocks |-> ledgerBlocks, tip |-> ledgerTip],
     [ok |-> TRUE,
      blocks |-> {b \in ledgerBlocks : ~(IsPrefix(target, b) /\ b # target)},
      tip |-> target]}

\* State.Walk(target, false), State.PlayForMiner(id), State.PlayAndRepost(id, ..):
\* a failure, or the state machine is at the block
Walk(target) ==
    {[ok |-> FALSE, latest |-> stateLatest], [ok |-> TRUE, latest |-> target]}

Play(id) ==
    {[ok |-> FALSE, latest |-> stateLatest], [ok |-> TRUE, latest |-> id]}

\* Ledger.GetPendingBlock(id)
HasPending(id) == \E p \in pending : p.blockid = id
GetPendingBlock(id) == CHOOSE p \in pending : p.blockid = id

----------------------------------------------------------------------------
(* ProcBlock: the ingress of a block pushed by the network *)

\* the blocks the network pushes
PushBlocks == {Blk(id) : id \in NetIds}

\* the gates without the check of the transactions
ProcBlockGateNoTxCheck(block, oversize, txsValid, syncHeight, syncId) ==
    IF block = NilBlock THEN "ErrParameter"
    ELSE IF oversize THEN "ErrForbidden: block is too large"
    ELSE IF block.height < syncHeight \/ block.blockid = syncId
         THEN "ErrForbidden: recv block height lower than in sync height"
    ELSE "pass"

\* the gates of ProcBlock before the queue admission, in the order of the code
ProcBlockGate(block, oversize, txsValid, syncHeight, syncId) ==
    IF block = NilBlock THEN "ErrParameter"
    ELSE IF oversize THEN "ErrForbidden: block is too large"
    ELSE IF block.height < syncHeight \/ block.blockid = syncId
         THEN "ErrForbidden: recv block height lower than in sync height"
    ELSE IF ~txsValid THEN "ErrForbidden: invalid tx got from the block"
    ELSE "pass"

\* the admission check after the increment of minerQueue
QueueFull(queue) == queue >= MaxBlockQueueSize

\* the arguments of the latest ProcBlock call of a thread, what it returned, and
\* whether it called trySyncBlock
IngressIdle == [block |-> NilBlock, oversize |-> FALSE, txsValid |-> TRUE,
                ret |-> "none", synced |-> FALSE]

ProcBlock(i, block, oversize, txsValid) ==
    /\ pc[i] = "idle"
    /\ LET r == ProcBlockGate(block, oversize, txsValid,
                              inSyncTargetHeight, inSyncTargetBlockId)
       IN /\ iv' = [iv EXCEPT ![i] = [block |-> block,
                                      oversize |-> oversize, txsValid |-> txsValid,
                                      ret |-> IF r = "pass" THEN "running" ELSE r,
                                      synced |-> FALSE]]
          /\ pc' = [pc EXCEPT ![i] = IF r = "pass" THEN "q_inc" ELSE "idle"]
    /\ UNCHANGED <<ledgerVars, stateLatest, minerMutex, minerQueue, syncFields,
                   isExit, lv, mv, sv, curTerm, tableVars, hist, probe>>

\* atomic.AddInt64(&t.minerQueue, 1)
ProcBlockEnqueue(i) ==
    /\ pc[i] = "q_inc"
    /\ minerQueue' = minerQueue + 1
    /\ pc' = [pc EXCEPT ![i] = "q_chk"]
    /\ UNCHANGED <<ledgerVars, stateLatest, minerMutex, syncFields, isExit, lv, mv,
                   sv, iv, curTerm, tableVars, hist, probe>>

\* the queue check; an admitted block is handed to trySyncBlock
ProcBlockAdmit(i) ==
    /\ pc[i] = "q_chk"
    /\ IF QueueFull(minerQueue)
       THEN /\ iv' = [iv EXCEPT ![i].ret = "ErrForbidden: miner queue full"]
            /\ pc' = [pc EXCEPT ![i] = "q_dec"]
            /\ UNCHANGED sv
       ELSE /\ iv' = [iv EXCEPT ![i].synced = TRUE]
            /\ sv' = [sv EXCEPT ![i] = [target |-> iv[i].block, blkIds |-> <<>>,
                                        index |-> 0, err |-> "nil"]]
            /\ pc' = [pc EXCEPT ![i] = "ts_lock"]
    /\ UNCHANGED <<ledgerVars, stateLatest, minerMutex, minerQueue, syncFields,
                   isExit, lv, mv, curTerm, tableVars, hist, probe>>

\* a return that leaves the counter as it is
ProcBlockDequeueNoDecrement(i) ==
    /\ pc[i] = "q_dec"
    /\ pc' = [pc EXCEPT ![i] = "idle"]
    /\ UNCHANGED <<ledgerVars, stateLatest, minerMutex, minerQueue, syncFields,
                   isExit, lv, mv, sv, iv, curTerm, tableVars, hist, probe>>

\* the deferred atomic.AddInt64(&t.minerQueue, -1), and the return
ProcBlockDequeue(i) ==
    /\ pc[i] = "q_dec"
    /\ minerQueue' = minerQueue - 1
    /\ pc' = [pc EXCEPT ![i] = "idle"]
    /\ UNCHANGED <<ledgerVars, stateLatest, minerMutex, syncFields, isExit, lv, mv,
                   sv, iv, curTerm, tableVars, hist, probe>>

----------------------------------------------------------------------------
(* trySyncBlock, syncBlock, downloadMissBlock, batchConfirmBlock: run by an *)
(* ingress thread on a pushed block, and by the mining loop on the longest  *)
(* block of the network.                                                    *)

SyncIdle == [target |-> NilBlock, blkIds |-> <<>>, index |-> 0, err |-> "nil"]

\* trySyncBlock returns e to its caller: ProcBlock returns it after the deferred
\* decrement, Start goes on with it
SyncReturn(t, e) ==
    IF t = LoopT
    THEN /\ pc' = [pc EXCEPT ![t] = "l_mine"]
         /\ lv' = [lv EXCEPT !.err = e]
         /\ UNCHANGED iv
    ELSE /\ pc' = [pc EXCEPT ![t] = "q_dec"]
         /\ iv' = [iv EXCEPT ![t].ret = e]
         /\ UNCHANGED lv

\* a trySyncBlock that goes on without waiting for the miner mutex
trySyncBlockLockNoWait(t) ==
    /\ pc[t] = "ts_lock"
    /\ minerMutex' = t
    /\ pc' = [pc EXCEPT ![t] = "ts_gate"]
    /\ UNCHANGED <<ledgerVars, stateLatest, minerQueue, syncFields, isExit, lv, mv,
                   sv, iv, curTerm, tableVars, hist, probe>>

\* t.minerMutex.Lock()
trySyncBlockLock(t) ==
    /\ pc[t] = "ts_lock"
    /\ minerMutex = Free
    /\ minerMutex' = t
    /\ pc' = [pc EXCEPT ![t] = "ts_gate"]
    /\ UNCHANGED <<ledgerVars, stateLatest, minerQueue, syncFields, isExit, lv, mv,
                   sv, iv, curTerm, tableVars, hist, probe>>

\* a gate that looks at the height of the target only
SyncTargetIgnoredByHeight(target, syncHeight, syncId) ==
    target.height < syncHeight

\* the target is ignored: lower than the sync in progress, the same block, or a
\* block of the ledger
SyncTargetIgnored(target, syncHeight, syncId) ==
    \/ target.height < syncHeight
    \/ target.blockid = syncId
    \/ ExistBlock(target.blockid)

\* the check of the target under the mutex, and the record of the new target
trySyncBlockGate(t) ==
    /\ pc[t] = "ts_gate"
    /\ IF SyncTargetIgnored(sv[t].target, inSyncTargetHeight, inSyncTargetBlockId)
       THEN /\ pc' = [pc EXCEPT ![t] = "ts_unlock"]
            /\ UNCHANGED syncFields
       ELSE /\ inSyncTargetHeight' = sv[t].target.height
            /\ inSyncTargetBlockId' = sv[t].target.blockid
            /\ pc' = [pc EXCEPT ![t] = "ts_walk"]
    /\ UNCHANGED <<ledgerVars, stateLatest, minerMutex, minerQueue, isExit, lv, mv,
                   sv, iv, curTerm, tableVars, hist, probe>>

\* the walk of the state machine to the ledger tip when they differ
trySyncBlockWalk(t) ==
    /\ pc[t] = "ts_walk"
    /\ IF ledgerTip # stateLatest
       THEN \E w \in Walk(ledgerTip) :
              /\ stateLatest' = w.latest
              /\ IF w.ok
                 THEN pc' = [pc EXCEPT ![t] = "sb_start"] /\ UNCHANGED sv
                 ELSE /\ pc' = [pc EXCEPT ![t] = "ts_unlock"]
                      /\ sv' = [sv EXCEPT ![t].err = "walk failed"]
       ELSE pc' = [pc EXCEPT ![t] = "sb_start"] /\ UNCHANGED <<stateLatest, sv>>
    /\ UNCHANGED <<ledgerVars, minerMutex, minerQueue, syncFields, isExit, lv, mv,
                   iv, curTerm, tableVars, hist, probe>>

\* downloadMissBlock from beginBlock on: ids collected so far, blocks saved so
\* far, and the number of fetches from the neighbours that still succeed
RECURSIVE downloadFrom(_, _, _, _)
downloadFrom(beginBlock, ids, saved, fetches) ==
    IF ExistBlock(beginBlock.preHash)
    THEN [blkIds |-> ids, saved |-> saved, err |-> "nil"]
    ELSE IF Len(beginBlock.preHash) <= 0 \/ beginBlock.height = 0
    THEN [blkIds |-> <<>>, saved |-> saved, err |-> "ErrGenesisBlockDiff"]
    ELSE IF HasPending(beginBlock.preHash)
    THEN LET block == GetPendingBlock(beginBlock.preHash)
         IN downloadFrom(block, Append(ids, block.blockid), saved, fetches)
    ELSE IF fetches = 0
    THEN [blkIds |-> ids, saved |-> saved, err |-> "get block error"]
    ELSE LET block == Blk(beginBlock.preHash)
         IN downloadFrom(block, Append(ids, block.blockid), saved \cup {block},
                         fetches - 1)

\* downloadMissBlock(targetBlock): the target is saved as pending, then its
\* ancestors are collected until one is in the ledger
downloadMissBlock(targetBlock, saveOk, fetches) ==
    IF ~saveOk
    THEN [blkIds |-> <<>>, saved |-> {}, err |-> "save pending block error"]
    ELSE downloadFrom(targetBlock, <<targetBlock.blockid>>, {targetBlock}, fetches)

\* syncBlock up to the end of the download
syncBlockDownload(t) ==
    /\ pc[t] = "sb_start"
    /\ IF \/ sv[t].target.height < TrunkHeight
          \/ sv[t].target.blockid = ledgerTip
       THEN /\ pc' = [pc EXCEPT ![t] = "ts_unlock"]
            /\ UNCHANGED <<sv, pending>>
       ELSE \E saveOk \in BOOLEAN, fetches \in 0..MaxHeight :
              LET d == downloadMissBlock(sv[t].target, saveOk, fetches)
              IN /\ pending' = pending \cup d.saved
                 /\ IF d.err = "nil"
                    THEN /\ sv' = [sv EXCEPT ![t].blkIds = d.blkIds,
                                             ![t].index = Len(d.blkIds)]
                         /\ pc' = [pc EXCEPT ![t] = "bc_confirm"]
                    ELSE /\ sv' = [sv EXCEPT ![t].err = "download miss block failed"]
                         /\ pc' = [pc EXCEPT ![t] = "ts_unlock"]
    /\ UNCHANGED <<ledgerBlocks, ledgerTip, stateLatest, minerMutex, minerQueue,
                   syncFields, isExit, lv, mv, iv, curTerm, tableVars, hist, probe>>

\* batchConfirmBlock, one block: GetPendingBlock, VerifyBlock, CheckMinerMatch,
\* Ledger.ConfirmBlock
batchConfirmBlockConfirm(t) ==
    /\ pc[t] = "bc_confirm"
    /\ IF sv[t].index < 1
       THEN /\ pc' = [pc EXCEPT ![t] = "bc_ret"]
            /\ UNCHANGED <<sv, ledgerBlocks, ledgerTip>>
       ELSE \E checksOk \in BOOLEAN :
              IF ~checksOk \/ ~HasPending(sv[t].blkIds[sv[t].index])
              THEN /\ sv' = [sv EXCEPT ![t].err = "batch confirm failed"]
                   /\ pc' = [pc EXCEPT ![t] = "bc_ret"]
                   /\ UNCHANGED <<ledgerBlocks, ledgerTip>>
              ELSE \E st \in ConfirmBlock(GetPendingBlock(sv[t].blkIds[sv[t].index])) :
                     /\ ledgerBlocks' = st.blocks
                     /\ ledgerTip' = st.tip
                     /\ IF st.succ
                        THEN pc' = [pc EXCEPT ![t] = "bc_play"] /\ UNCHANGED sv
                        ELSE /\ sv' = [sv EXCEPT ![t].err = "ledger confirm block failed"]
                             /\ pc' = [pc EXCEPT ![t] = "bc_ret"]
    /\ UNCHANGED <<pending, stateLatest, minerMutex, minerQueue, syncFields, isExit,
                   lv, mv, iv, curTerm, tableVars, hist, probe>>

\* batchConfirmBlock, one block: State.PlayAndRepost when the state machine is at
\* the block's preHash
batchConfirmBlockPlay(t) ==
    /\ pc[t] = "bc_play"
    /\ LET block == GetPendingBlock(sv[t].blkIds[sv[t].index])
       IN IF stateLatest = block.preHash
          THEN \E r \in Play(block.blockid) :
                 /\ stateLatest' = r.latest
                 /\ IF r.ok
                    THEN pc' = [pc EXCEPT ![t] = "bc_process"] /\ UNCHANGED sv
                    ELSE /\ sv' = [sv EXCEPT ![t].err = "state play error"]
                         /\ pc' = [pc EXCEPT ![t] = "bc_ret"]
          ELSE pc' = [pc EXCEPT ![t] = "bc_process"] /\ UNCHANGED <<stateLatest, sv>>
    /\ UNCHANGED <<ledgerVars, minerMutex, minerQueue, syncFields, isExit, lv, mv,
                   iv, curTerm, tableVars, hist, probe>>

\* a batch confirm that stops after its first block
batchConfirmBlockProcessFirstOnly(t) ==
    /\ pc[t] = "bc_process"
    /\ sv' = [sv EXCEPT ![t].index = 0]
    /\ pc' = [pc EXCEPT ![t] = "bc_confirm"]
    /\ UNCHANGED <<ledgerVars, stateLatest, minerMutex, minerQueue, syncFields,
                   isExit, lv, mv, iv, curTerm, tableVars, hist, probe>>

\* a batch confirm that goes on with the next block when
\* Consensus.ProcessConfirmBlock has failed
batchConfirmBlockProcessGoOn(t) ==
    /\ pc[t] = "bc_process"
    /\ \E ok \in BOOLEAN :
         /\ sv' = [sv EXCEPT ![t].index = sv[t].index - 1,
                             ![t].err = IF ok THEN sv[t].err
                                       ELSE "consensus process confirm block failed"]
         /\ pc' = [pc EXCEPT ![t] = "bc_confirm"]
    /\ UNCHANGED <<ledgerVars, stateLatest, minerMutex, minerQueue, syncFields,
                   isExit, lv, mv, iv, curTerm, tableVars, hist, probe>>

\* batchConfirmBlock, one block: Consensus.ProcessConfirmBlock, then the next block
batchConfirmBlockProcess(t) ==
    /\ pc[t] = "bc_process"
    /\ \E ok \in BOOLEAN :
         IF ok
         THEN /\ sv' = [sv EXCEPT ![t].index = sv[t].index - 1]
              /\ pc' = [pc EXCEPT ![t] = "bc_confirm"]
         ELSE /\ sv' = [sv EXCEPT ![t].err = "consensus process confirm block failed"]
              /\ pc' = [pc EXCEPT ![t] = "bc_ret"]
    /\ UNCHANGED <<ledgerVars, stateLatest, minerMutex, minerQueue, syncFields,
                   isExit, lv, mv, iv, curTerm, tableVars, hist, probe>>

\* batchConfirmBlock has returned into syncBlock, whose deferred function walks the
\* state machine to the ledger tip when they differ; a failed walk is only logged
syncBlockDefer(t) ==
    /\ pc[t] = "bc_ret"
    /\ IF ledgerTip # stateLatest
       THEN \E w \in Walk(ledgerTip) : stateLatest' = w.latest
       ELSE UNCHANGED stateLatest
    /\ pc' = [pc EXCEPT ![t] = "ts_unlock"]
    /\ UNCHANGED <<ledgerVars, minerMutex, minerQueue, syncFields, isExit, lv, mv,
                   sv, iv, curTerm, tableVars, hist, probe>>

\* a release of the mutex that leaves the sync target of a failed sync as it is
trySyncBlockUnlockNoReset(t) ==
    /\ pc[t] = "ts_unlock"
    /\ minerMutex' = Free
    /\ sv' = [sv EXCEPT ![t] = SyncIdle]
    /\ SyncReturn(t, IF sv[t].err = "nil" THEN "nil" ELSE "try sync block failed")
    /\ UNCHANGED <<ledgerVars, stateLatest, minerQueue, syncFields, isExit, mv,
                   curTerm, tableVars, hist, probe>>

\* the deferred function of trySyncBlock: after an error the sync target is reset
\* to the ledger meta; the mutex is released and trySyncBlock returns
trySyncBlockUnlock(t) ==
    /\ pc[t] = "ts_unlock"
    /\ IF sv[t].err # "nil"
       THEN /\ inSyncTargetHeight' = TrunkHeight
            /\ inSyncTargetBlockId' = ledgerTip
       ELSE UNCHANGED syncFields
    /\ minerMutex' = Free
    /\ sv' = [sv EXCEPT ![t] = SyncIdle]
    /\ SyncReturn(t, IF sv[t].err = "nil" THEN "nil" ELSE "try sync block failed")
    /\ UNCHANGED <<ledgerVars, stateLatest, minerQueue, isExit, mv, curTerm,
                   tableVars, hist, probe>>

----------------------------------------------------------------------------
(* Side tables: the confirmed table and the shared confirm batch *)

Addresses == {"A", "B"}
ThawTags == {"t1", "t2"}

KTerm == <<"tdpos_term">>
KCandidates == <<"tdpos_freezes_total_assets">>
KNode == <<"nodeinfo_tdos_thaw_total_assets">>
KBallot(a) == <<"ballot_", a>>
KCache(a) == <<"cache_", a>>
KAmount(a) == <<"amount_", a>>

EmptyMap == [k \in {} |-> 0]

\* ConfirmedTable.Get(key) finds the key
Has(table, key) == key \in DOMAIN table

\* ConfirmBatch.Put(key, value)
Put(batch, key, value) == (key :> value) @@ batch

\* ConfirmBatch.Write() has succeeded: the staged writes are in the table
Commit(table, batch) == batch @@ table

RECURSIVE SumOver(_, _)
\* the sum of f[k].amount over the keys ks of f
SumOver(f, ks) ==
    IF ks = {} THEN 0
    ELSE LET k == CHOOSE x \in ks : TRUE
         IN f[k].amount + SumOver(f, ks \ {k})

SumAmounts(f) == SumOver(f, DOMAIN f)

\* a cycle watcher that does not clear NewCycle on the second call of a term
ReadTermTableNotCleared(table, batch, term, termOk, writeOk) ==
    IF ~termOk
    THEN [flag |-> FALSE, err |-> "nil", table |-> table, batch |-> batch]
    ELSE IF Has(table, KTerm) /\ table[KTerm].term = term
                              /\ table[KTerm].newCycle = FALSE
    THEN [flag |-> FALSE, err |-> "nil", table |-> table, batch |-> batch]
    ELSE LET termTable ==
                 IF Has(table, KTerm) THEN [term |-> term, newCycle |-> TRUE]
                 ELSE [term |-> term, newCycle |-> FALSE]
             staged == Put(batch, KTerm, termTable)
         IN IF writeOk
            THEN [flag |-> termTable.newCycle, err |-> "nil",
                  table |-> Commit(table, staged), batch |-> EmptyMap]
            ELSE [flag |-> FALSE, err |-> "write failed",
                  table |-> table, batch |-> staged]

\* ReadTermTable: the cycle watcher.  Result: the flag and error it returns, and
\* the table and batch it leaves
ReadTermTable(table, batch, term, termOk, writeOk) ==
    IF ~termOk
    THEN [flag |-> FALSE, err |-> "nil", table |-> table, batch |-> batch]
    ELSE IF Has(table, KTerm) /\ table[KTerm].term = term
                              /\ table[KTerm].newCycle = FALSE
    THEN [flag |-> FALSE, err |-> "nil", table |-> table, batch |-> batch]
    ELSE LET termTable ==
                 IF Has(table, KTerm)
                 THEN IF table[KTerm].term # term
                      THEN [term |-> term, newCycle |-> TRUE]
                      ELSE [term |-> term, newCycle |-> FALSE]
                 ELSE [term |-> term, newCycle |-> FALSE]
             staged == Put(batch, KTerm, termTable)
         IN IF writeOk
            THEN [flag |-> termTable.newCycle, err |-> "nil",
                  table |-> Commit(table, staged), batch |-> EmptyMap]
            ELSE [flag |-> FALSE, err |-> "write failed",
                  table |-> table, batch |-> staged]

EmptyBallot == [votingUser |-> EmptyMap, ratio |-> 0, beVotedTotal |-> 0]

\* the loop of UpdateCacheTable from the k-th candidate of order, the order in
\* which the range over the candidate map yields them: the ballot is read (an
\* absent ballot decodes to the empty record), the stored cache row is decoded,
\* which fails for the candidates of corrupt and ends the function, and the row
\* with the voters, the ratio and the total of the ballot is put in the batch
RECURSIVE updateCacheRows(_, _, _, _, _)
updateCacheRows(table, batch, order, k, corrupt) ==
    IF k > Len(order) THEN [batch |-> batch, complete |-> TRUE]
    ELSE LET a == order[k]
             ballot == IF Has(table, KBallot(a)) THEN table[KBallot(a)]
                       ELSE EmptyBallot
             row == [votingUser |-> ballot.votingUser, ratio |-> ballot.ratio,
                     totalVote |-> ballot.beVotedTotal]
         IN IF Has(table, KCache(a)) /\ a \in corrupt
            THEN [batch |-> batch, complete |-> FALSE]
            ELSE updateCacheRows(table, Put(batch, KCache(a), row), order, k + 1,
                                 corrupt)

\* UpdateCacheTable: the candidates are read, their rows are put in the shared
\* batch, and the batch is written when the loop came to its end
UpdateCacheTable(table, batch, order, corrupt, writeOk) ==
    IF ~Has(table, KCandidates)
    THEN [table |-> table, batch |-> batch]
    ELSE LET r == updateCacheRows(table, batch, order, 1, corrupt)
         IN IF r.complete /\ writeOk
            THEN [table |-> Commit(table, r.batch), batch |-> EmptyMap]
            ELSE [table |-> table, batch |-> r.batch]

\* a transaction of a block: its group, what it is about, and an amount or size
Tx(kind, key, amount) == [kind |-> kind, key |-> key, amount |-> amount]

\* GetThawTx(height): the reverse-transfer txs of the schedule entry at height;
\* reverseOk is the number of State.ReverseTx calls that succeed
GetThawTx(table, height, reverseOk) ==
    IF ~Has(table, KNode) THEN [txs |-> <<>>, err |-> "kvErr"]
    ELSE IF height \notin DOMAIN table[KNode] THEN [txs |-> <<>>, err |-> "nil"]
    ELSE LET details == table[KNode][height]
         IN IF reverseOk < Len(details)
            THEN [txs |-> <<>>, err |-> "reverse tx failed"]
            ELSE [txs |-> [k \in 1..Len(details) |->
                             Tx("thaw", details[k].address, details[k].amount)],
                  err |-> "nil"]

\* a rewrite that keeps the total
PruneRowTotalKept(row, height) ==
    LET kept == {k \in DOMAIN row.thawDetail : row.thawDetail[k].height > height}
    IN [total |-> row.total,
        frozenDetail |-> row.frozenDetail,
        thawDetail |-> [k \in kept |-> row.thawDetail[k]]]

\* the frozen-assets row of ClearThawTx: the thaw entries above height are kept,
\* the amounts of the others leave the total
PruneRow(row, height) ==
    LET kept == {k \in DOMAIN row.thawDetail : row.thawDetail[k].height > height}
        gone == DOMAIN row.thawDetail \ kept
    IN [total |-> row.total - SumOver(row.thawDetail, gone),
        frozenDetail |-> row.frozenDetail,
        thawDetail |-> [k \in kept |-> row.thawDetail[k]]]

RECURSIVE clearRows(_, _, _, _, _, _)
\* the loop of ClearThawTx over the addresses of the entry: each row is read,
\* rewritten, staged and written at once; writes is the set of addresses whose
\* write succeeds
clearRows(details, k, table, batch, height, writes) ==
    IF k > Len(details) THEN [table |-> table, batch |-> batch, err |-> "nil"]
    ELSE LET key == KAmount(details[k].address)
         IN IF ~Has(table, key)
            THEN [table |-> table, batch |-> batch, err |-> "kvErr"]
            ELSE LET staged == Put(batch, key, PruneRow(table[key], height))
                 IN IF k \in writes
                    THEN clearRows(details, k + 1, Commit(table, staged), EmptyMap,
                                   height, writes)
                    ELSE clearRows(details, k + 1, table, staged, height, writes)

\* ClearThawTx(height): the rows of the addresses that thawed at height, then the
\* schedule without the entry
ClearThawTx(table, batch, height, writes, writeOk) ==
    IF ~Has(table, KNode) THEN [table |-> table, batch |-> batch, err |-> "nil"]
    ELSE IF height \notin DOMAIN table[KNode]
    THEN [table |-> table, batch |-> batch, err |-> "nil"]
    ELSE LET r == clearRows(table[KNode][height], 1, table, batch, height, writes)
         IN IF r.err # "nil" THEN r
            ELSE LET nodeTable == [h \in DOMAIN table[KNode] \ {height} |->
                                     table[KNode][h]]
                     staged == Put(r.batch, KNode, nodeTable)
                 IN IF writeOk
                    THEN [table |-> Commit(r.table, staged), batch |-> EmptyMap,
                          err |-> "nil"]
                    ELSE [table |-> r.table, batch |-> staged, err |-> "write failed"]

----------------------------------------------------------------------------
(* packBlock *)

RECURSIVE getUnconfirmedTxSkip(_, _)
\* a selection that passes over a tx that does not fit and goes on
getUnconfirmedTxSkip(unconfirmedTxs, sizeLimit) ==
    IF unconfirmedTxs = <<>> THEN <<>>
    ELSE IF Head(unconfirmedTxs).amount > sizeLimit
    THEN getUnconfirmedTxSkip(Tail(unconfirmedTxs), sizeLimit)
    ELSE <<Head(unconfirmedTxs)>> \o
         getUnconfirmedTxSkip(Tail(unconfirmedTxs),
                              sizeLimit - Head(unconfirmedTxs).amount)

RECURSIVE getUnconfirmedTx(_, _)
\* getUnconfirmedTx(sizeLimit): the unconfirmed txs are taken in order until one
\* is larger than what is left of the limit
getUnconfirmedTx(unconfirmedTxs, sizeLimit) ==
    IF unconfirmedTxs = <<>> THEN <<>>
    ELSE IF Head(unconfirmedTxs).amount > sizeLimit THEN <<>>
    ELSE <<Head(unconfirmedTxs)>> \o
         getUnconfirmedTx(Tail(unconfirmedTxs), sizeLimit - Head(unconfirmedTxs).amount)

\* getAwardTx(height, flag): the award tx and the award left for the voters.
\* award is GenesisBlock.CalcAward(height), assigned is what AssignRewards returns
getAwardTx(award, assigned, flag) ==
    IF award < 0 THEN [err |-> "amount in transaction can not be negative number",
                       tx |-> Tx("award", "miner", 0), remainAward |-> 0]
    ELSE LET remainAward == IF flag = FALSE THEN assigned ELSE 0
         IN [err |-> "nil", tx |-> Tx("award", "miner", award - remainAward),
             remainAward |-> remainAward]

\* the width of an int64, scaled down
Int64Bits == 8

\* big.Int.Int64(): the low bits of the value, read as a signed integer
Int64(x) ==
    LET m == x % (2 ^ Int64Bits)
    IN IF m >= 2 ^ (Int64Bits - 1) THEN m - 2 ^ Int64Bits ELSE m

\* a packer that puts the thaw txs before the mempool txs
packBlockThawFirst(e, flag) ==
    IF ~e.sizeOk THEN [err |-> "max tx size error", txs |-> <<>>]
    ELSE IF ~e.timerOk THEN [err |-> "ErrGenerateTimerTxFailed", txs |-> <<>>]
    ELSE IF ~e.mempoolOk THEN [err |-> "get unconfirmed tx error", txs |-> <<>>]
    ELSE LET sizeLimit == IF e.timerExt THEN e.sizeLimit - e.timerSize
                          ELSE e.sizeLimit
             generalTxList == getUnconfirmedTx(e.mempool, sizeLimit)
             thawTx == e.thaw.txs
             aw == getAwardTx(e.award, e.assigned, flag)
         IN IF aw.err # "nil" THEN [err |-> aw.err, txs |-> <<>>]
            ELSE IF ~e.formatOk THEN [err |-> "format block error", txs |-> <<>>]
            ELSE [err |-> "nil",
                  txs |-> <<aw.tx>>
                          \o (IF e.timerExt THEN <<Tx("timer", "timer", e.timerSize)>>
                              ELSE <<>>)
                          \o thawTx
                          \o generalTxList
                          \o (IF Int64(aw.remainAward) > 0 /\ ~flag THEN e.voteTxs
                              ELSE <<>>)]

\* What the collaborators answer to one packBlock:
\*   sizeOk        State.MaxTxSizePerBlock succeeds
\*   sizeLimit     State.MaxTxSizePerBlock()
\*   timerOk       State.GetTimerTx succeeds
\*   timerExt      the timer tx carries extension outputs
\*   timerSize     proto.Size of the timer tx
\*   mempoolOk     State.GetUnconfirmedTx succeeds
\*   mempool       State.GetUnconfirmedTx(false), in order
\*   award         GenesisBlock.CalcAward(height)
\*   assigned      AssignRewards(miner, award)
\*   voteTxs       GenerateVoteAward(miner, remainAward)
\*   thaw          GetThawTx(height)
\*   formatOk      convertConsData and Ledger.FormatMinerBlock succeed
\* packBlock: the tx list of the block, or the error
packBlock(e, flag) ==
    IF ~e.sizeOk THEN [err |-> "max tx size error", txs |-> <<>>]
    ELSE IF ~e.timerOk THEN [err |-> "ErrGenerateTimerTxFailed", txs |-> <<>>]
    ELSE IF ~e.mempoolOk THEN [err |-> "get unconfirmed tx error", txs |-> <<>>]
    ELSE LET sizeLimit == IF e.timerExt THEN e.sizeLimit - e.timerSize
                          ELSE e.sizeLimit
             generalTxList == getUnconfirmedTx(e.mempool, sizeLimit)
             thawTx == e.thaw.txs
             aw == getAwardTx(e.award, e.assigned, flag)
         IN IF aw.err # "nil" THEN [err |-> aw.err, txs |-> <<>>]
            ELSE IF ~e.formatOk THEN [err |-> "format block error", txs |-> <<>>]
            ELSE [err |-> "nil",
                  txs |-> <<aw.tx>>
                          \o (IF e.timerExt THEN <<Tx("timer", "timer", e.timerSize)>>
                              ELSE <<>>)
                          \o generalTxList
                          \o thawTx
                          \o (IF Int64(aw.remainAward) > 0 /\ ~flag THEN e.voteTxs
                              ELSE <<>>)]

\* the answers of the collaborators while the mining loop runs
LoopPackEnvs(thaw) ==
    {[sizeOk |-> TRUE, formatOk |-> TRUE, mempoolOk |-> TRUE, sizeLimit |-> 2,
      timerOk |-> ok, timerExt |-> ext, timerSize |-> 1,
      mempool |-> <<Tx("mempool", 1, 1), Tx("mempool", 2, 2)>>,
      award |-> 2, assigned |-> 1, voteTxs |-> <<Tx("vote", "v1", 1)>>,
      thaw |-> thaw] : ok \in BOOLEAN, ext \in BOOLEAN}

----------------------------------------------------------------------------
(* The probe of the network: getWholeNetLongestBlock, isConfirmed,          *)
(* countConfirmBlock                                                        *)

\* a reply to the confirmation probe: a TipStatus with IsTrunkTip true or false,
\* or a message that does not decode
Replies == {"trunk", "nottrunk", "bad"}

RECURSIVE CountOf(_, _)
\* the number of messages of one kind, counted as the loop of countConfirmBlock
CountOf(messages, kind) ==
    IF messages = <<>> THEN 0
    ELSE (IF Head(messages) = kind THEN 1 ELSE 0) + CountOf(Tail(messages), kind)

\* a rule that asks for more agreeing than disagreeing replies
QuorumRuleStrict(agreeCnt, disagreeCnt, n) ==
    agreeCnt > disagreeCnt /\ agreeCnt >= n \div 3

\* the rule of countConfirmBlock on its two counters and len(messages)
QuorumRule(agreeCnt, disagreeCnt, n) ==
    agreeCnt >= disagreeCnt /\ agreeCnt >= n \div 3

countConfirmBlock(messages) ==
    QuorumRule(CountOf(messages, "trunk"), CountOf(messages, "nottrunk"),
               Len(messages))

\* isConfirmed: the probe is sent; an error of the network is a refusal
isConfirmed(sendOk, messages) ==
    IF ~sendOk THEN FALSE ELSE countConfirmBlock(messages)

\* BCSByHeight.Less
BCSByHeight(a, b) == a.trunkHeight > b.trunkHeight

RECURSIVE firstConfirmed(_, _)
\* the loop of getWholeNetLongestBlock over the sorted statuses; confirm maps a
\* block id to the replies its probe collects
firstConfirmed(bcStatus, confirm) ==
    IF bcStatus = <<>> THEN [block |-> NilBlock, err |-> "not found longest block"]
    ELSE IF isConfirmed(confirm[Head(bcStatus).block.blockid].sendOk,
                        confirm[Head(bcStatus).block.blockid].messages)
    THEN [block |-> Head(bcStatus).block, err |-> "nil"]
    ELSE firstConfirmed(Tail(bcStatus), confirm)

IsDecoded(response) == response.decoded

\* getWholeNetLongestBlock: the statuses that decode, sorted by trunk height from
\* the highest, and the first of them the neighbours confirm
getWholeNetLongestBlock(sendOk, responses, confirm) ==
    IF ~sendOk THEN [block |-> NilBlock, err |-> "get block chain status error"]
    ELSE firstConfirmed(SortSeq(SelectSeq(responses, IsDecoded), BCSByHeight),
                        confirm)

\* the network block of height h
NetBlock(h) == Blk(CHOOSE id \in NetIds : HeightOf(id) = h)

\* what the neighbours answer to the mining loop: one status per height (lowest
\* first), some of which do not decode, and for every block the replies of its
\* confirmation probe
LoopResponses ==
    {[h \in 1..MaxHeight |->
        [decoded |-> h # bad, block |-> NetBlock(h), trunkHeight |-> h]] :
     bad \in {0, MaxHeight}}

LoopConfirms ==
    {[id \in NetIds |-> [sendOk |-> TRUE,
                         messages |-> IF id \in C THEN <<"trunk">>
                                      ELSE <<"nottrunk", "bad", "bad">>]] :
     C \in SUBSET NetIds}

----------------------------------------------------------------------------
(* mining: one block is packed and confirmed under the miner mutex *)

MiningIdle == [height |-> 0, truncateTarget |-> NilHash, block |-> NilBlock,
               txs |-> <<>>, err |-> "nil"]

\* what Consensus.ProcessBeforeMiner may ask to truncate to: nothing, an ancestor
\* of the tip, or a block the ledger does not hold
TruncateTargets ==
    {NilHash} \cup {b \in ledgerBlocks : IsPrefix(b, ledgerTip) /\ b # ledgerTip}
              \cup {Append(ledgerTip, "n")}

\* mining up to Consensus.ProcessBeforeMiner: the lock, the walk of the state
\* machine to the ledger tip when they differ, the height, the consensus hook
miningBegin ==
    /\ pc[LoopT] = "l_mine"
    /\ lv.err = "nil" /\ lv.isMiner
    /\ minerMutex = Free
    /\ minerMutex' = LoopT
    /\ \E w \in (IF ledgerTip # stateLatest THEN Walk(ledgerTip)
                 ELSE {[ok |-> TRUE, latest |-> stateLatest]}) :
         /\ stateLatest' = w.latest
         /\ IF ~w.ok
            THEN /\ mv' = [MiningIdle EXCEPT !.err = "mining walk failed"]
                 /\ pc' = [pc EXCEPT ![LoopT] = "m_unlock"]
            ELSE \E beforeOk \in BOOLEAN, target \in TruncateTargets :
                   IF ~beforeOk \/ TrunkHeight >= MaxHeight
                   THEN /\ mv' = [MiningIdle EXCEPT
                                    !.err = "consensus process before miner failed"]
                        /\ pc' = [pc EXCEPT ![LoopT] = "m_unlock"]
                   ELSE /\ mv' = [MiningIdle EXCEPT !.height = TrunkHeight + 1,
                                                    !.truncateTarget = target]
                        /\ pc' = [pc EXCEPT ![LoopT] =
                                    IF target # NilHash THEN "m_truncate" ELSE "m_pack"]
    /\ UNCHANGED <<ledgerVars, minerQueue, syncFields, isExit, lv, sv, iv, curTerm,
                   tableVars, hist, probe>>

\* Start does not mine in this iteration
miningSkip ==
    /\ pc[LoopT] = "l_mine"
    /\ ~(lv.err = "nil" /\ lv.isMiner)
    /\ pc' = [pc EXCEPT ![LoopT] = "l_clear"]
    /\ UNCHANGED <<ledgerVars, stateLatest, minerMutex, minerQueue, syncFields,
                   isExit, lv, mv, sv, iv, curTerm, tableVars, hist, probe>>

\* a truncation that does not look the target up in the ledger first
truncateForMinerNoQuery(target, w, tr) ==
    IF ~w.ok
    THEN [err |-> "state walk error", latest |-> w.latest,
          blocks |-> ledgerBlocks, tip |-> ledgerTip]
    ELSE IF ~tr.ok
    THEN [err |-> "ledger truncate error", latest |-> w.latest,
          blocks |-> ledgerBlocks, tip |-> ledgerTip]
    ELSE [err |-> "nil", latest |-> w.latest, blocks |-> tr.blocks, tip |-> tr.tip]

\* truncateForMiner(target): QueryBlockHeader, State.Walk, Ledger.Truncate.
\* Result: the error, the state machine and the ledger it leaves
truncateForMiner(target, w, tr) ==
    IF ~ExistBlock(target)
    THEN [err |-> "query target error", latest |-> stateLatest,
          blocks |-> ledgerBlocks, tip |-> ledgerTip]
    ELSE IF ~w.ok
    THEN [err |-> "state walk error", latest |-> w.latest,
          blocks |-> ledgerBlocks, tip |-> ledgerTip]
    ELSE IF ~tr.ok
    THEN [err |-> "ledger truncate error", latest |-> w.latest,
          blocks |-> ledgerBlocks, tip |-> ledgerTip]
    ELSE [err |-> "nil", latest |-> w.latest, blocks |-> tr.blocks, tip |-> tr.tip]

\* the height taken before truncateForMiner is kept
HeightNotReset(height, trunkHeight) == height

\* the height mining packs at after truncateForMiner: read again from the ledger
HeightAfterTruncate(height, trunkHeight) == trunkHeight + 1

miningTruncate ==
    /\ pc[LoopT] = "m_truncate"
    /\ \E w \in Walk(mv.truncateTarget), tr \in Truncate(mv.truncateTarget) :
         LET r == truncateForMiner(mv.truncateTarget, w, tr)
         IN /\ stateLatest' = r.latest
            /\ ledgerBlocks' = r.blocks
            /\ ledgerTip' = r.tip
            /\ IF r.err # "nil"
               THEN /\ mv' = [mv EXCEPT !.err = r.err]
                    /\ pc' = [pc EXCEPT ![LoopT] = "m_unlock"]
               ELSE /\ mv' = [mv EXCEPT
                                !.height = HeightAfterTruncate(mv.height, HeightOf(r.tip))]
                    /\ pc' = [pc EXCEPT ![LoopT] = "m_pack"]
    /\ UNCHANGED <<pending, minerMutex, minerQueue, syncFields, isExit, lv, sv, iv,
                   curTerm, tableVars, hist, probe>>

\* Ledger.FormatMinerBlock(txList, .., State.GetLatestBlockid(), .., height)
FormatMinerBlock(preHash, height) ==
    [blockid |-> Append(preHash, "m"), preHash |-> preHash, height |-> height]

miningPack ==
    /\ pc[LoopT] = "m_pack"
    /\ \E reverseOk \in 0..Cardinality(Addresses) :
       \E e \in LoopPackEnvs(GetThawTx(confirmedTable, mv.height, reverseOk)) :
         LET p == packBlock(e, lv.flag)
         IN IF p.err # "nil"
            THEN /\ mv' = [mv EXCEPT !.err = p.err]
                 /\ pc' = [pc EXCEPT ![LoopT] = "m_unlock"]
            ELSE /\ mv' = [mv EXCEPT !.block = FormatMinerBlock(stateLatest, mv.height),
                                     !.txs = p.txs]
                 /\ pc' = [pc EXCEPT ![LoopT] = "m_confirm"]
    /\ UNCHANGED <<ledgerVars, stateLatest, minerMutex, minerQueue, syncFields,
                   isExit, lv, sv, iv, curTerm, tableVars, hist, probe>>

\* confirmBlockForMiner: Consensus.CalculateBlock, then Ledger.ConfirmBlock
confirmBlockForMinerConfirm ==
    /\ pc[LoopT] = "m_confirm"
    /\ \E calcOk \in BOOLEAN :
         IF ~calcOk
         THEN /\ mv' = [mv EXCEPT !.err = "consensus calculate block failed"]
              /\ pc' = [pc EXCEPT ![LoopT] = "m_unlock"]
              /\ UNCHANGED <<ledgerBlocks, ledgerTip>>
         ELSE \E st \in ConfirmBlock(mv.block) :
                /\ ledgerBlocks' = st.blocks
                /\ ledgerTip' = st.tip
                /\ IF ~st.succ
                   THEN /\ mv' = [mv EXCEPT !.err = "ledger confirm block error"]
                        /\ pc' = [pc EXCEPT ![LoopT] = "m_unlock"]
                   ELSE /\ UNCHANGED mv
                        /\ pc' = [pc EXCEPT ![LoopT] =
                                    IF st.orphan THEN "m_done" ELSE "m_play"]
    /\ UNCHANGED <<pending, stateLatest, minerMutex, minerQueue, syncFields, isExit,
                   lv, sv, iv, curTerm, tableVars, hist, probe>>

\* a confirm pipeline that does not play the block on the state machine
confirmBlockForMinerWithoutPlay ==
    /\ pc[LoopT] = "m_play"
    /\ pc' = [pc EXCEPT ![LoopT] = "m_process"]
    /\ UNCHANGED <<ledgerVars, stateLatest, minerMutex, minerQueue, syncFields,
                   isExit, lv, mv, sv, iv, curTerm, tableVars, hist, probe>>

\* confirmBlockForMiner: State.PlayForMiner
confirmBlockForMinerPlay ==
    /\ pc[LoopT] = "m_play"
    /\ \E r \in Play(mv.block.blockid) :
         /\ stateLatest' = r.latest
         /\ IF r.ok
            THEN pc' = [pc EXCEPT ![LoopT] = "m_process"] /\ UNCHANGED mv
            ELSE /\ mv' = [mv EXCEPT !.err = "state play error"]
                 /\ pc' = [pc EXCEPT ![LoopT] = "m_unlock"]
    /\ UNCHANGED <<ledgerVars, minerMutex, minerQueue, syncFields, isExit, lv, sv,
                   iv, curTerm, tableVars, hist, probe>>

\* confirmBlockForMiner: Consensus.ProcessConfirmBlock
confirmBlockForMinerProcess ==
    /\ pc[LoopT] = "m_process"
    /\ \E ok \in BOOLEAN :
         IF ok
         THEN pc' = [pc EXCEPT ![LoopT] = "m_done"] /\ UNCHANGED mv
         ELSE /\ mv' = [mv EXCEPT !.err = "consensus confirm block error"]
              /\ pc' = [pc EXCEPT ![LoopT] = "m_unlock"]
    /\ UNCHANGED <<ledgerVars, stateLatest, minerMutex, minerQueue, syncFields,
                   isExit, lv, sv, iv, curTerm, tableVars, hist, probe>>

\* confirmBlockForMiner has returned nil: the block is handed to broadcastBlock
\* and joins the stream of the blocks this miner produced
\* (hist.paid, hist.unpaid: the heights with an entry in the un-bonding schedule
\* whose produced block carried, or did not carry, the thaw txs)
miningBroadcast ==
    /\ pc[LoopT] = "m_done"
    /\ LET h == mv.block.height
           due == Has(confirmedTable, KNode) /\ h \in DOMAIN confirmedTable[KNode]
           thawed == \E k \in DOMAIN mv.txs : mv.txs[k].kind = "thaw"
       IN hist' = [hist EXCEPT
                     !.lastProduced = h,
                     !.produced = TRUE,
                     !.paid = IF due /\ thawed THEN @ \cup {h} ELSE @,
                     !.unpaid = IF due /\ ~thawed THEN @ \cup {h} ELSE @]
    /\ pc' = [pc EXCEPT ![LoopT] = "m_unlock"]
    /\ UNCHANGED <<ledgerVars, stateLatest, minerMutex, minerQueue, syncFields,
                   isExit, lv, mv, sv, iv, curTerm, tableVars, probe>>

\* mining returns: the deferred Unlock; Start takes the error
miningReturn ==
    /\ pc[LoopT] = "m_unlock"
    /\ minerMutex' = Free
    /\ lv' = [lv EXCEPT !.err = mv.err]
    /\ mv' = MiningIdle
    /\ pc' = [pc EXCEPT ![LoopT] = "l_clear"]
    /\ UNCHANGED <<ledgerVars, stateLatest, minerQueue, syncFields, isExit, sv, iv,
                   curTerm, tableVars, hist, probe>>

----------------------------------------------------------------------------
(* Start: the mining loop *)

LoopIdle == [err |-> "nil", isMiner |-> FALSE, isSync |-> FALSE, flag |-> FALSE,
             ledgerTipId |-> Genesis, stateTipId |-> Genesis]

\* Consensus.CompeteMaster: isMiner, isSync and the error
CompeteMaster ==
    {[isMiner |-> m, isSync |-> s, err |-> "nil"] : m, s \in BOOLEAN}
    \cup {[isMiner |-> FALSE, isSync |-> FALSE, err |-> "compete master error"]}

\* exitWG, the wait group of Start: Add(1) on entry, the deferred Done on return
exitWG == IF pc[LoopT] \in {"start", "exited"} THEN 0 ELSE 1

\* Start is entered: exitWG.Add(1), and the ledger tip of the first snapshot
StartBegin ==
    /\ pc[LoopT] = "start"
    /\ lv' = [lv EXCEPT !.ledgerTipId = ledgerTip]
    /\ pc' = [pc EXCEPT ![LoopT] = "l_update2"]
    /\ UNCHANGED <<ledgerVars, stateLatest, minerMutex, minerQueue, syncFields,
                   isExit, mv, sv, iv, curTerm, tableVars, hist, probe>>

\* the loop test has found IsExit: Start returns, and its deferred exitWG.Done
StartExit ==
    /\ pc[LoopT] = "top"
    /\ isExit
    /\ pc' = [pc EXCEPT ![LoopT] = "exited"]
    /\ UNCHANGED <<ledgerVars, stateLatest, minerMutex, minerQueue, syncFields,
                   isExit, lv, mv, sv, iv, curTerm, tableVars, hist, probe>>

\* steps 1 and 2: the walk of the state machine to the ledger tip of the snapshot
\* when the snapshot differs, without the mutex, and CompeteMaster when no error.
\* hist.competed: CompeteMaster was called in this iteration and returned no error
StartWalk ==
    /\ pc[LoopT] = "top"
    /\ ~isExit
    /\ \E w \in (IF lv.ledgerTipId # lv.stateTipId THEN Walk(lv.ledgerTipId)
                 ELSE {[ok |-> TRUE, latest |-> stateLatest]}) :
         /\ stateLatest' = w.latest
         /\ LET err == IF w.ok THEN lv.err ELSE "walk error"
            IN IF err = "nil"
               THEN \E c \in CompeteMaster :
                      /\ lv' = [lv EXCEPT !.isMiner = c.isMiner, !.isSync = c.isSync,
                                          !.err = c.err]
                      /\ hist' = [hist EXCEPT !.competed = (c.err = "nil")]
               ELSE /\ lv' = [lv EXCEPT !.err = err]
                    /\ hist' = [hist EXCEPT !.competed = FALSE]
    /\ pc' = [pc EXCEPT ![LoopT] = "l_term"]
    /\ UNCHANGED <<ledgerVars, minerMutex, minerQueue, syncFields, isExit, mv, sv,
                   iv, curTerm, tableVars, probe>>

\* flag, err = t.ReadTermTable(ctx): the error of the steps before is overwritten
StartReadTermTable(termOk, writeOk) ==
    /\ pc[LoopT] = "l_term"
    /\ LET r == ReadTermTable(confirmedTable, confirmBatch, curTerm, termOk, writeOk)
       IN /\ confirmedTable' = r.table
          /\ confirmBatch' = r.batch
          /\ lv' = [lv EXCEPT !.flag = r.flag, !.err = r.err]
          /\ pc' = [pc EXCEPT ![LoopT] = IF r.flag THEN "l_cache" ELSE "l_sync"]
          /\ hist' = IF hist.winTerm = curTerm
                     THEN [hist EXCEPT
                             !.calls = IF hist.calls < MaxCalls THEN hist.calls + 1
                                       ELSE hist.calls,
                             !.trues = hist.trues + (IF r.flag THEN 1 ELSE 0)]
                     ELSE [hist EXCEPT !.winTerm = curTerm, !.calls = 1,
                                       !.trues = IF r.flag THEN 1 ELSE 0]
    /\ UNCHANGED <<ledgerVars, stateLatest, minerMutex, minerQueue, syncFields,
                   isExit, mv, sv, iv, curTerm, probe>>

StartUpdateCacheTable(order, corrupt, writeOk) ==
    /\ pc[LoopT] = "l_cache"
    /\ LET r == UpdateCacheTable(confirmedTable, confirmBatch, order, corrupt, writeOk)
       IN confirmedTable' = r.table /\ confirmBatch' = r.batch
    /\ pc' = [pc EXCEPT ![LoopT] = "l_sync"]
    /\ UNCHANGED <<ledgerVars, stateLatest, minerMutex, minerQueue, syncFields,
                   isExit, lv, mv, sv, iv, curTerm, hist, probe>>

\* step 3: trySyncBlock(ctx, nil) up to the lock: the target is the longest block
\* of the network
StartSync ==
    /\ pc[LoopT] = "l_sync"
    /\ IF lv.err = "nil" /\ lv.isMiner /\ lv.isSync
       THEN \E sendOk \in BOOLEAN, responses \in LoopResponses,
               confirm \in LoopConfirms :
              LET r == getWholeNetLongestBlock(sendOk, responses, confirm)
              IN IF r.err # "nil"
                 THEN /\ lv' = [lv EXCEPT !.err =
                           "try sync block get whole network longest block failed"]
                      /\ pc' = [pc EXCEPT ![LoopT] = "l_mine"]
                      /\ UNCHANGED sv
                 ELSE /\ sv' = [sv EXCEPT ![LoopT] = [SyncIdle EXCEPT !.target = r.block]]
                      /\ pc' = [pc EXCEPT ![LoopT] = "ts_lock"]
                      /\ UNCHANGED lv
       ELSE pc' = [pc EXCEPT ![LoopT] = "l_mine"] /\ UNCHANGED <<lv, sv>>
    /\ UNCHANGED <<ledgerVars, stateLatest, minerMutex, minerQueue, syncFields,
                   isExit, mv, iv, curTerm, tableVars, hist, probe>>

\* step 4.1: ClearThawTx(TrunkHeight - 1); what it returns is dropped
StartClearThawTx(writes, writeOk) ==
    /\ pc[LoopT] = "l_clear"
    /\ LET r == ClearThawTx(confirmedTable, confirmBatch, TrunkHeight - 1,
                            writes, writeOk)
       IN confirmedTable' = r.table /\ confirmBatch' = r.batch
    /\ pc' = [pc EXCEPT ![LoopT] = "l_update"]
    /\ UNCHANGED <<ledgerVars, stateLatest, minerMutex, minerQueue, syncFields,
                   isExit, lv, mv, sv, iv, curTerm, hist, probe>>

\* steps 5 and 6: after the sleep, the error is cleared and the ledger tip is read
StartUpdateLedgerTip ==
    /\ pc[LoopT] = "l_update"
    /\ IF ~isExit
       THEN /\ lv' = [lv EXCEPT !.err = "nil", !.ledgerTipId = ledgerTip]
            /\ pc' = [pc EXCEPT ![LoopT] = "l_update2"]
       ELSE pc' = [pc EXCEPT ![LoopT] = "top"] /\ UNCHANGED lv
    /\ hist' = [hist EXCEPT !.competed = FALSE]
    /\ UNCHANGED <<ledgerVars, stateLatest, minerMutex, minerQueue, syncFields,
                   isExit, mv, sv, iv, curTerm, tableVars, probe>>

\* the state tip is read: the end of the first snapshot and of step 6
StartUpdateStateTip ==
    /\ pc[LoopT] = "l_update2"
    /\ lv' = [lv EXCEPT !.stateTipId = stateLatest]
    /\ pc' = [pc EXCEPT ![LoopT] = "top"]
    /\ UNCHANGED <<ledgerVars, stateLatest, minerMutex, minerQueue, syncFields,
                   isExit, mv, sv, iv, curTerm, tableVars, hist, probe>>

\* Stop, from the control thread: the flag is set
Stop ==
    /\ pc[CtlT] = "idle"
    /\ isExit' = TRUE
    /\ pc' = [pc EXCEPT ![CtlT] = "stop_wait"]
    /\ UNCHANGED <<ledgerVars, stateLatest, minerMutex, minerQueue, syncFields,
                   lv, mv, sv, iv, curTerm, tableVars, hist, probe>>

\* Stop: exitWG.Wait() returns when the counter of the wait group is zero
StopReturn ==
    /\ pc[CtlT] = "stop_wait"
    /\ exitWG = 0
    /\ pc' = [pc EXCEPT ![CtlT] = "stopped"]
    /\ UNCHANGED <<ledgerVars, stateLatest, minerMutex, minerQueue, syncFields,
                   isExit, lv, mv, sv, iv, curTerm, tableVars, hist, probe>>

\* the consensus moves to the next term
TermAdvance ==
    /\ curTerm < MaxTerm
    /\ curTerm' = curTerm + 1
    /\ UNCHANGED <<ledgerVars, stateLatest, minerMutex, minerQueue, syncFields,
                   isExit, pc, lv, mv, sv, iv, tableVars, hist, probe>>

----------------------------------------------------------------------------
(* The miner: the mining loop and the ingress threads *)

\* the side tables of a node with two candidates, one frozen-assets row and one
\* thaw scheduled at height 1
InitBallot == [votingUser |-> [u \in {"B"} |-> 2], ratio |-> 10, beVotedTotal |-> 2]

InitRow == [total |-> 3,
            frozenDetail |-> [k \in {"f1"} |-> [amount |-> 1, height |-> 0]],
            thawDetail |-> [k \in ThawTags |->
                              IF k = "t1" THEN [amount |-> 1, height |-> 1]
                              ELSE [amount |-> 1, height |-> 3]]]

InitTable ==
    (KCandidates :> Addresses) @@ [k \in {KBallot(a) : a \in Addresses} |-> InitBallot]
    @@ (KNode :> [h \in {1} |-> <<[address |-> "A", amount |-> 1]>>])
    @@ (KAmount("A") :> InitRow)

HistInit == [lastProduced |-> 0, produced |-> FALSE, winTerm |-> 0, calls |-> 0,
             trues |-> 0, competed |-> FALSE, paid |-> {}, unpaid |-> {}]

NoProbe == [kind |-> "none"]

RECURSIVE Ancestors(_)
\* a block and the blocks under it
Ancestors(id) == IF Len(id) <= 1 THEN {id} ELSE {id} \cup Ancestors(PreOf(id))

\* the state after NewMiner, with the threads ts, over a ledger and a state
\* machine at tip and the confirmed table table
Boot(ts, tip, table) ==
    /\ ledgerBlocks = Ancestors(tip)
    /\ ledgerTip = tip
    /\ pending = {}
    /\ stateLatest = tip
    /\ minerMutex = Free
    /\ minerQueue = 0
    /\ inSyncTargetHeight = 0
    /\ inSyncTargetBlockId = NilHash
    /\ isExit = FALSE
    /\ pc = [t \in ts |-> IF t = LoopT THEN "start" ELSE "idle"]
    /\ lv = [LoopIdle EXCEPT !.ledgerTipId = tip, !.stateTipId = tip]
    /\ mv = MiningIdle
    /\ sv = [t \in ts |-> SyncIdle]
    /\ iv = [i \in ts \cap Ingress |-> IngressIdle]
    /\ curTerm = 1
    /\ confirmedTable = table
    /\ confirmBatch = EmptyMap
    /\ hist = HistInit

\* the threads that run: those that have a position
Threads == DOMAIN pc
IngressThreads == DOMAIN iv

\* the steps of ProcBlock on the pushes the network makes
NextIngress(pushes, flags) ==
    \/ \E i \in IngressThreads, block \in pushes, oversize, invalid \in flags :
         ProcBlock(i, block, oversize, ~invalid)
    \/ \E i \in IngressThreads : ProcBlockEnqueue(i)
    \/ \E i \in IngressThreads : ProcBlockAdmit(i)
    \/ \E i \in IngressThreads : ProcBlockDequeue(i)

\* the steps of the sync engine
NextSync ==
    \/ \E t \in Threads : trySyncBlockLock(t)
    \/ \E t \in Threads : trySyncBlockGate(t)
    \/ \E t \in Threads : trySyncBlockWalk(t)
    \/ \E t \in Threads : syncBlockDownload(t)
    \/ \E t \in Threads : batchConfirmBlockConfirm(t)
    \/ \E t \in Threads : batchConfirmBlockPlay(t)
    \/ \E t \in Threads : batchConfirmBlockProcess(t)
    \/ \E t \in Threads : syncBlockDefer(t)
    \/ \E t \in Threads : trySyncBlockUnlock(t)

\* the steps of mining
NextMining ==
    \/ miningBegin
    \/ miningTruncate
    \/ miningPack
    \/ confirmBlockForMinerConfirm
    \/ confirmBlockForMinerPlay
    \/ confirmBlockForMinerProcess
    \/ miningBroadcast
    \/ miningReturn

\* the orders in which a range over the candidate map may yield the candidates
CandidateOrders(table) ==
    IF ~Has(table, KCandidates) THEN {<<>>}
    ELSE LET cands == table[KCandidates]
         IN {o \in [1..Cardinality(cands) -> cands] :
               \A j, k \in DOMAIN o : j # k => o[j] # o[k]}

\* the steps of Start on the side tables; oks is what the key-value store and the
\* consensus status may answer
NextTables(oks) ==
    \/ \E termOk, writeOk \in oks : StartReadTermTable(termOk, writeOk)
    \/ \E writeOk \in oks, order \in CandidateOrders(confirmedTable),
          corrupt \in (IF FALSE \in oks THEN SUBSET Addresses ELSE {{}}) :
         StartUpdateCacheTable(order, corrupt, writeOk)
    \/ \E writes \in {{}, 1..Cardinality(Addresses)}, writeOk \in oks :
         StartClearThawTx(writes, writeOk)

\* the other steps of Start outside trySyncBlock and mining
NextStart ==
    \/ StartBegin
    \/ StartExit
    \/ StartWalk
    \/ StartSync
    \/ miningSkip
    \/ StartUpdateLedgerTip
    \/ StartUpdateStateTip

TermRecord(term, newCycle) == KTerm :> [term |-> term, newCycle |-> newCycle]

\* A node restarted in term 1 with the term record of term 0 and no other side
\* table: the mining loop, one ingress thread that is pushed well-formed blocks
\* and the control thread, over a key-value store that does not fail
Init == Boot({LoopT, "i1", CtlT}, Genesis, TermRecord(0, FALSE)) /\ probe = NoProbe

Next ==
    \/ NextIngress(PushBlocks, {FALSE})
    \/ NextSync
    \/ NextMining
    \/ NextTables({TRUE})
    \/ NextStart
    \/ Stop
    \/ StopReturn

Spec == Init /\ [][Next]_vars

----------------------------------------------------------------------------
(* The ingress alone: two threads that are pushed any block, the mining loop *)
(* not started                                                              *)

InitIngress == Boot(Ingress, Genesis, EmptyMap) /\ probe = NoProbe

NextIngressOnly == NextIngress(PushBlocks \cup {NilBlock}, BOOLEAN) \/ NextSync

SpecIngress == InitIngress /\ [][NextIngressOnly]_vars

----------------------------------------------------------------------------
(* The side tables alone: the mining loop of a node that is not elected, on *)
(* its first boot, over terms that advance and a key-value store and a      *)
(* consensus status that may fail                                           *)

\* the ledger of that node: two blocks of the network
TablesTip == <<"g", "n", "n">>

InitTables == Boot({LoopT, CtlT}, TablesTip, InitTable) /\ probe = NoProbe

NextTablesOnly ==
    \/ NextTables(BOOLEAN)
    \/ StartBegin
    \/ (StartWalk /\ ~lv'.isMiner)
    \/ StartSync
    \/ miningSkip
    \/ StartUpdateLedgerTip
    \/ StartUpdateStateTip
    \/ StartExit
    \/ Stop
    \/ StopReturn
    \/ TermAdvance

SpecTables == InitTables /\ [][NextTablesOnly]_vars

----------------------------------------------------------------------------
(* The elected miner over a failing store: the mining loop of a node that   *)
(* CompeteMaster elects in every iteration, restarted in term 1 with the    *)
(* term record of term 0, over a key-value store and a consensus status     *)
(* that may fail                                                            *)

InitElected ==
    Boot({LoopT}, Genesis, InitTable @@ TermRecord(0, FALSE)) /\ probe = NoProbe

NextElected ==
    \/ NextTables(BOOLEAN)
    \/ StartBegin
    \/ (StartWalk /\ lv'.isMiner /\ lv'.err = "nil")
    \/ StartSync
    \/ NextSync
    \/ miningSkip
    \/ NextMining
    \/ StartUpdateLedgerTip
    \/ StartUpdateStateTip

SpecElected == InitElected /\ [][NextElected]_vars

----------------------------------------------------------------------------
(* The candidate cache over a failing store: the mining loop of SpecTables  *)
(* on a node restarted in term 1 with the term record of term 0 and the     *)
(* cache rows of a cycle in which no vote had been cast                      *)

StaleCache ==
    [k \in {KCache(a) : a \in Addresses} |->
       [votingUser |-> EmptyMap, ratio |-> 0, totalVote |-> 0]]

InitCache ==
    /\ Boot({LoopT, CtlT}, TablesTip, InitTable @@ StaleCache @@ TermRecord(0, FALSE))
    /\ probe = NoProbe

SpecCache == InitCache /\ [][NextTablesOnly]_vars

----------------------------------------------------------------------------
(* The un-bonding schedule while the chain grows: the mining loop of a node  *)
(* that is not elected, and one ingress thread that is pushed a block three  *)
(* heights above the genesis block, so that one sync batch confirms three    *)
(* blocks.  The schedule holds an entry at height 1.                         *)

\* the block the network pushes: its two ancestors are missing
SchedulePush == Blk(Append(TablesTip, "n"))

InitSchedule ==
    Boot({LoopT, "i1"}, Genesis, InitTable @@ TermRecord(0, FALSE)) /\ probe = NoProbe

\* the steps of the mining loop of a node that is not elected
NextScheduleLoop ==
    \/ NextTables({TRUE})
    \/ StartBegin
    \/ (StartWalk /\ ~lv'.isMiner)
    \/ StartSync
    \/ miningSkip
    \/ StartUpdateLedgerTip
    \/ StartUpdateStateTip

NextSchedule ==
    \/ NextIngress({SchedulePush}, {FALSE})
    \/ NextSync
    \/ NextScheduleLoop

\* the mining loop and the sync engine go on: every call they make returns
SpecSchedule ==
    /\ InitSchedule /\ [][NextSchedule]_vars
    /\ WF_vars(NextScheduleLoop) /\ WF_vars(NextSync)

----------------------------------------------------------------------------
(* Properties of the ingress *)

\* the errors of kind Forbidden that ProcBlock builds
ForbiddenErrors == {"ErrForbidden: block is too large",
                    "ErrForbidden: recv block height lower than in sync height",
                    "ErrForbidden: invalid tx got from the block",
                    "ErrForbidden: miner queue full"}

\* the ProcBlock calls that are past the increment of minerQueue and before the
\* deferred decrement
InQueue == {i \in IngressThreads : pc[i] \notin {"idle", "q_inc"}}

\* thread i makes a ProcBlock call in this step
Called(i) == pc[i] = "idle" /\ iv'[i] # iv[i]

\* C9.  Ingress admission: a ProcBlock call with a block larger than the maximal
\* block size returns the Forbidden error "block is too large" at once, without
\* calling trySyncBlock and without changing the ledger, the state machine, the
\* sync target or minerQueue; and minerQueue always is the number of calls between
\* the increment and the deferred decrement, so that every call that returns has
\* given back what it took.
C9_IngressAdmission ==
    [][/\ minerQueue' = Cardinality(InQueue')
       /\ \A i \in IngressThreads :
            (Called(i) /\ iv'[i].block # NilBlock /\ iv'[i].oversize)
            => /\ pc'[i] = "idle"
               /\ iv'[i].ret = "ErrForbidden: block is too large"
               /\ ~iv'[i].synced
               /\ UNCHANGED <<ledgerVars, stateLatest, syncFields, minerQueue,
                              minerMutex, sv>>]_vars

\* an oversize call has been rejected while another call was in the queue
C9_Witness ==
    \E i \in IngressThreads :
      /\ pc[i] = "idle" /\ iv[i].oversize /\ iv[i].block # NilBlock
      /\ iv[i].ret = "ErrForbidden: block is too large"
      /\ minerQueue = 1
      /\ \E j \in IngressThreads : j # i /\ pc[j] = "bc_confirm"

\* the preconditions of the gates of ProcBlock, on the arguments of the call of
\* thread i in this step and the sync target the call reads
GatesHold(i) ==
    /\ iv'[i].block # NilBlock
    /\ ~iv'[i].oversize
    /\ iv'[i].block.height >= inSyncTargetHeight
    /\ iv'[i].block.blockid # inSyncTargetBlockId
    /\ iv'[i].txsValid

\* the steps into trySyncBlock: only from the queue check, and only when the
\* counter is under the cap; a full queue is a Forbidden error
AdmissionGate(i) ==
    /\ (pc[i] = "q_chk" /\ pc'[i] # "q_chk")
       => IF minerQueue < MaxBlockQueueSize
          THEN pc'[i] = "ts_lock" /\ iv'[i].synced
          ELSE /\ pc'[i] = "q_dec" /\ ~iv'[i].synced
               /\ iv'[i].ret = "ErrForbidden: miner queue full"
    /\ (iv'[i].synced /\ ~iv[i].synced) => pc[i] = "q_chk"
    /\ (pc'[i] = "ts_lock" /\ pc[i] # "ts_lock") => pc[i] = "q_chk"

\* C10, as the specification states it: ProcBlock goes on to trySyncBlock only
\* when every precondition holds, and every precondition failure, the nil block
\* included, returns a Forbidden error without calling trySyncBlock.
C10_AllFailuresForbidden ==
    [][\A i \in IngressThreads :
         /\ Called(i) =>
              /\ GatesHold(i) <=> pc'[i] = "q_inc"
              /\ ~GatesHold(i) => /\ pc'[i] = "idle" /\ ~iv'[i].synced
                                  /\ iv'[i].ret \in ForbiddenErrors
         /\ AdmissionGate(i)]_vars

\* C10, amended: ProcBlock goes on to trySyncBlock only when every precondition
\* holds; a nil block returns the Parameter error, every other precondition
\* failure returns a Forbidden error, and neither calls trySyncBlock.
C10_ProcBlockGates ==
    [][\A i \in IngressThreads :
         /\ Called(i) =>
              /\ GatesHold(i) <=> pc'[i] = "q_inc"
              /\ ~GatesHold(i) => /\ pc'[i] = "idle" /\ ~iv'[i].synced
                                  /\ IF iv'[i].block = NilBlock
                                     THEN iv'[i].ret = "ErrParameter"
                                     ELSE iv'[i].ret \in ForbiddenErrors
         /\ AdmissionGate(i)]_vars

\* every way out of ProcBlock has been taken: a call was refused for its invalid
\* transactions while the other thread, admitted, was in trySyncBlock, and the
\* sync target it recorded refuses lower blocks
C10_Witness ==
    \E i, j \in IngressThreads :
      /\ pc[i] = "idle" /\ iv[i].ret = "ErrForbidden: invalid tx got from the block"
      /\ iv[i].block.height >= inSyncTargetHeight
      /\ pc[j] = "ts_walk" /\ iv[j].synced
      /\ inSyncTargetHeight > 0

\* C11.  Queue admission cap: a ProcBlock call that has passed the gates is
\* admitted, that is handed to trySyncBlock, iff fewer than MaxBlockQueueSize
\* other calls are in flight (between their increment and their decrement of
\* minerQueue) when it is checked, so that up to MaxBlockQueueSize calls are in
\* flight at once.
C11_AdmissionCap ==
    [][\A i \in IngressThreads :
         (pc[i] = "q_chk" /\ pc'[i] # "q_chk")
         => (iv'[i].synced <=> Cardinality(InQueue \ {i}) < MaxBlockQueueSize)]_vars

----------------------------------------------------------------------------
(* Properties of the mining loop and the sync engine *)

\* C1, as the specification states it: whenever mining or batchConfirmBlock
\* returns, whatever the collaborators answered, the state machine is at the tip
\* of the ledger.
C1_EveryCompletion ==
    /\ pc[LoopT] = "m_unlock" => stateLatest = ledgerTip
    /\ \A t \in Threads : pc[t] = "bc_ret" => stateLatest = ledgerTip

\* C1, amended: whenever mining returns without an error the state machine is at
\* the tip of the ledger.  (A mining that fails, and a batchConfirmBlock that
\* fails or that switches to a fork, return with the two apart; the next walk
\* repairs them.)
C1_MiningSuccess ==
    (pc[LoopT] = "m_unlock" /\ mv.err = "nil") => stateLatest = ledgerTip

\* mining returns without an error after it has confirmed and played its block
C1_Witness ==
    /\ pc[LoopT] = "m_unlock" /\ mv.err = "nil"
    /\ mv.block # NilBlock
    /\ ledgerTip = mv.block.blockid
    /\ stateLatest = ledgerTip

\* the thread that takes this step holds the miner mutex
ByMutexHolder == minerMutex # Free /\ pc'[minerMutex] # pc[minerMutex]

\* C2.  Every mutation of the ledger, of the state machine, of the confirmed
\* table and of the shared confirm batch is a step of the thread that holds the
\* miner mutex.
C2_MutexFunnel ==
    [][(ledgerVars' # ledgerVars \/ stateLatest' # stateLatest
                                 \/ tableVars' # tableVars) => ByMutexHolder]_vars

\* the positions of a thread between the calls of one batchConfirmBlock
InBatchConfirm == {"bc_confirm", "bc_play", "bc_process"}

\* C3.  The Play calls on the state machine go up by one block height each, and
\* between the Play calls of one batch confirm, as between the confirm and the
\* play of a mined block, no other thread moves the state machine.
C3_PlayOrder ==
    [][/\ \A t \in Threads :
            (pc[t] \in InBatchConfirm \cup {"m_play"} /\ pc'[t] = pc[t])
            => stateLatest' = stateLatest
       /\ \A t \in Threads :
            (pc[t] \in {"bc_play", "m_play"} /\ pc'[t] # pc[t]
                                             /\ stateLatest' # stateLatest)
            => HeightOf(stateLatest') = HeightOf(stateLatest) + 1]_vars

\* the confirm of a block by thread t in this step makes it the tip
ConfirmedAsTip(t) ==
    /\ pc[t] \in {"m_confirm", "bc_confirm"}
    /\ pc'[t] # pc[t]
    /\ ledgerTip' # ledgerTip

\* mining hands a block to broadcastBlock in this step
Produced == pc[LoopT] = "m_done" /\ pc'[LoopT] = "m_unlock"

\* C8, as the specification states it: the heights of the blocks this miner
\* produces strictly increase, the block is packed at trunk height + 1 and every
\* confirm that is not an orphan raises the trunk height by exactly 1.
C8_StrictlyIncreasing ==
    [][/\ (Produced /\ hist.produced) => mv.block.height > hist.lastProduced
       /\ pc'[LoopT] = "m_confirm" => mv'.block.height = HeightOf(ledgerTip') + 1
       /\ \A t \in Threads :
            ConfirmedAsTip(t) => HeightOf(ledgerTip') = HeightOf(ledgerTip) + 1]_vars

\* C8, amended: every block this miner packs has the height trunk height + 1 of
\* the ledger at packing time, after a truncation too, and extends the ledger
\* tip; every confirm that is not an orphan raises the trunk height by exactly 1.
\* (The heights of the produced blocks do not always increase: a truncation
\* that the consensus asks for lowers the trunk height.)
C8_HeightAtPacking ==
    [][/\ pc'[LoopT] = "m_confirm"
          => /\ mv'.block.height = HeightOf(ledgerTip') + 1
             /\ mv'.block.preHash = ledgerTip'
       /\ \A t \in Threads :
            ConfirmedAsTip(t) => HeightOf(ledgerTip') = HeightOf(ledgerTip) + 1]_vars

\* the miner has produced a block at height 1 after a truncation of the ledger
\* that held a block it produced before
C8_Witness ==
    /\ pc[LoopT] = "m_unlock" /\ mv.err = "nil"
    /\ mv.truncateTarget = Genesis
    /\ hist.produced /\ hist.lastProduced = 1
    /\ ledgerTip = mv.block.blockid
    /\ TrunkHeight = 1

\* C18.  Consensus truncate: truncateForMiner runs under the miner mutex.  When
\* it succeeds the target was in the ledger, the state machine is at the target,
\* the ledger is cut to the target, the height is the new trunk height + 1, and
\* the block packed next has that height and extends the target.  When it fails
\* mining returns without a packed or confirmed block and the ledger is as it
\* was: after a failed existence check the state machine is as it was too, after
\* a failed walk the ledger has not been cut, and a failed cut comes after the
\* walk.
C18_ConsensusTruncate ==
    [][/\ (pc[LoopT] = "m_truncate" /\ pc'[LoopT] # "m_truncate")
          => /\ minerMutex = LoopT /\ minerMutex' = LoopT
             /\ IF pc'[LoopT] = "m_pack"
                THEN /\ ExistBlock(mv.truncateTarget)
                     /\ stateLatest' = mv.truncateTarget
                     /\ ledgerTip' = mv.truncateTarget
                     /\ ledgerBlocks' =
                          {b \in ledgerBlocks : IsPrefix(b, mv.truncateTarget)
                                                \/ ~IsPrefix(mv.truncateTarget, b)}
                     /\ mv'.height = HeightOf(ledgerTip') + 1
                ELSE /\ pc'[LoopT] = "m_unlock" /\ mv'.err # "nil"
                     /\ mv'.block = NilBlock
                     /\ ledgerBlocks' = ledgerBlocks /\ ledgerTip' = ledgerTip
                     /\ ~ExistBlock(mv.truncateTarget) => stateLatest' = stateLatest
                     /\ mv'.err = "ledger truncate error"
                        => stateLatest' = mv.truncateTarget
       /\ (pc[LoopT] = "m_pack" /\ pc'[LoopT] = "m_confirm"
                                /\ mv.truncateTarget # NilHash)
          => /\ mv'.block.height = HeightOf(mv.truncateTarget) + 1
             /\ mv'.block.height = TrunkHeight + 1
             /\ mv'.block.preHash = mv.truncateTarget]_vars

\* the consensus asked to truncate the ledger, which held a block this miner
\* had produced, to the genesis block, and the block packed after the truncation
\* has height 1
C18_Witness ==
    /\ pc[LoopT] = "m_confirm"
    /\ mv.truncateTarget = Genesis
    /\ hist.produced /\ hist.lastProduced = 1
    /\ ledgerBlocks = {Genesis}
    /\ mv.block.height = 1 /\ mv.block.preHash = Genesis

\* C12.  Exit discipline: Stop does not return before Start has returned, and
\* once Stop has returned the mining loop takes no further step of trySyncBlock,
\* of mining or of ClearThawTx.
C12_ExitDiscipline ==
    [][/\ pc'[CtlT] = "stopped" => pc'[LoopT] = "exited"
       /\ (pc[CtlT] = "stopped" /\ pc'[LoopT] # pc[LoopT])
          => pc[LoopT] \in {"start", "l_update2", "top"}]_vars

\* C13.  Un-bonding schedule lifecycle: no entry of the schedule at a height
\* below trunk height - 1 stays forever: the ClearThawTx of the mining loop
\* deletes the entry of every height once its block is confirmed, whether the
\* block was confirmed alone or as one of the blocks of a sync batch.
C13_ScheduleLifecycle ==
    \A h \in 1..MaxHeight :
      []<>~(/\ Has(confirmedTable, KNode)
            /\ h \in DOMAIN confirmedTable[KNode]
            /\ h < TrunkHeight - 1)

C15_FailuresIsolated ==
    [][/\ (/\ pc[LoopT] = "l_sync" /\ pc'[LoopT] # "l_sync"
            /\ lv.isMiner /\ lv.isSync /\ lv.err \in {"nil", "write failed"})
           => (pc'[LoopT] = "ts_lock" \/ lv'.err \notin {"nil", "write failed"})
       /\ (/\ pc[LoopT] = "l_mine" /\ pc'[LoopT] # "l_mine"
            /\ lv.isMiner /\ lv.err \in {"nil", "write failed"})
           => minerMutex' = LoopT]_vars

----------------------------------------------------------------------------
(* Properties of the cycle watcher *)

\* the mining loop calls ReadTermTable in this step
TermCall == pc[LoopT] = "l_term" /\ pc'[LoopT] # "l_term"

\* the call of this step has replaced the record of another term by the record
\* of the current term with NewCycle set
TermReplaced ==
    /\ Has(confirmedTable, KTerm)
    /\ confirmedTable[KTerm].term # curTerm
    /\ Has(confirmedTable', KTerm)
    /\ confirmedTable'[KTerm] = [term |-> curTerm, newCycle |-> TRUE]

\* C5, as the specification states it: of the calls of ReadTermTable made so far
\* in the current term, exactly one has returned true.
C5_ExactlyOnce == hist.calls >= 1 => hist.trues = 1

\* C5, amended: of the calls of ReadTermTable made in one term at most one
\* returns true, and a call returns true exactly when it commits the replacement
\* of the record of another term.  (No call of the term returns true on a first
\* boot, where the record is absent, or when the write of the replacement
\* fails and a later Write of the shared batch commits it.)
C5_AtMostOnce ==
    [][/\ hist'.trues <= 1
       /\ TermCall => (lv'.flag <=> TermReplaced)]_vars

\* the second call of a term after the call that returned true
C5_Witness ==
    /\ hist.winTerm = curTerm /\ hist.calls >= 2 /\ hist.trues = 1
    /\ curTerm > 1
    /\ Has(confirmedTable, KTerm)
    /\ confirmedTable[KTerm] = [term |-> curTerm, newCycle |-> FALSE]

\* C19.  Cycle watcher rules: with the consensus term at hand, ReadTermTable on
\* an absent record writes {term, false} and returns false; on a record of the
\* same term with NewCycle false it writes nothing and returns false; on a
\* record of the same term with NewCycle true it writes {term, false} and returns
\* false; on a record of another term it writes {term, true} and returns true.
\* When the write fails it returns false and the stored record is as it was.
C19_WatcherRules ==
    \A writeOk \in BOOLEAN :
      LET r == ReadTermTable(confirmedTable, confirmBatch, curTerm, TRUE, writeOk)
          stored == Has(confirmedTable, KTerm)
          written(newCycle) ==
              /\ Has(r.table, KTerm)
              /\ r.table[KTerm] = [term |-> curTerm, newCycle |-> newCycle]
          untouched ==
              /\ Has(r.table, KTerm) = stored
              /\ stored => r.table[KTerm] = confirmedTable[KTerm]
      IN IF ~stored THEN
              IF writeOk THEN written(FALSE) /\ ~r.flag ELSE untouched /\ ~r.flag
         ELSE IF confirmedTable[KTerm].term = curTerm THEN
              IF ~confirmedTable[KTerm].newCycle
              THEN untouched /\ ~r.flag /\ r.batch = confirmBatch
              ELSE IF writeOk THEN written(FALSE) /\ ~r.flag
                   ELSE untouched /\ ~r.flag
         ELSE IF writeOk THEN written(TRUE) /\ r.flag ELSE untouched /\ ~r.flag

\* the watcher is about to be called on a record of the current term with
\* NewCycle true, over a batch in which a failed write has left a term record
C19_Witness ==
    /\ pc[LoopT] = "l_term"
    /\ Has(confirmedTable, KTerm)
    /\ confirmedTable[KTerm] = [term |-> curTerm, newCycle |-> TRUE]
    /\ Has(confirmBatch, KTerm)
    /\ hist.calls >= 1

\* C20.  Candidate-cache rewrite: UpdateCacheTable runs in an iteration exactly
\* when the cycle watcher has returned true in it; when it writes the batch every
\* candidate's cache row holds the voters, the ratio and the total of its
\* ballot; and the rows of a cycle are stored all or none: a run that stopped at
\* a candidate whose row could not be decoded stores no row, then or later
C20_CacheRewrite ==
    [][/\ TermCall => (pc'[LoopT] = "l_cache" <=> lv'.flag)
       /\ (pc'[LoopT] = "l_cache" /\ pc[LoopT] # "l_cache") => TermCall
       /\ LET cands == confirmedTable[KCandidates]
              row(a) == [votingUser |-> confirmedTable[KBallot(a)].votingUser,
                         ratio |-> confirmedTable[KBallot(a)].ratio,
                         totalVote |-> confirmedTable[KBallot(a)].beVotedTotal]
          IN /\ pc[LoopT] = "l_cache"
                => \A order \in CandidateOrders(confirmedTable), a \in cands :
                     UpdateCacheTable(confirmedTable, confirmBatch, order, {},
                                      TRUE).table[KCache(a)] = row(a)
             /\ \/ \A a \in cands : confirmedTable'[KCache(a)] = row(a)
                \/ \A a \in cands : confirmedTable'[KCache(a)] # row(a)]_vars

----------------------------------------------------------------------------
(* countConfirmBlock on its own: every list of replies up to MaxMsgs *)

\* no thread runs
Halted == Boot({}, Genesis, EmptyMap)

MessageLists == UNION {[1..n -> Replies] : n \in 0..MaxMsgs}

InitQuorum ==
    /\ Halted
    /\ probe \in {[kind |-> "quorum", messages |-> m, done |-> FALSE,
                   accepted |-> FALSE] : m \in MessageLists}

countConfirmBlockCall ==
    /\ probe.kind = "quorum" /\ ~probe.done
    /\ probe' = [probe EXCEPT !.done = TRUE,
                              !.accepted = countConfirmBlock(probe.messages)]
    /\ UNCHANGED <<ledgerVars, stateLatest, minerMutex, minerQueue, syncFields,
                   isExit, pc, lv, mv, sv, iv, curTerm, tableVars, hist>>

SpecQuorum == InitQuorum /\ [][countConfirmBlockCall]_vars

\* the replies of one kind in the list of the probe
RepliesOf(kind) == {k \in DOMAIN probe.messages : probe.messages[k] = kind}

----------------------------------------------------------------------------
(* packBlock on its own: every answer of the collaborators within the bounds *)

\* the mempools: up to MaxMempool txs of sizes up to MaxTxSize; the key of a tx
\* is its position
Mempools ==
    UNION {{[k \in 1..n |-> Tx("mempool", k, sz[k])] : sz \in [1..n -> 1..MaxTxSize]} :
           n \in 0..MaxMempool}

\* the confirmed tables GetThawTx reads: no schedule, a schedule without an
\* entry at height 1, a schedule with two addresses at height 1
ThawTables ==
    {EmptyMap,
     KNode :> [h \in {2} |-> <<[address |-> "A", amount |-> 1]>>],
     KNode :> [h \in {1} |-> <<[address |-> "A", amount |-> 1],
                               [address |-> "B", amount |-> 2]>>]}

ThawAnswers == {GetThawTx(t, 1, r) : t \in ThawTables, r \in {0, 2}}

\* the number of State.ReverseTx calls that succeed
ReverseOks == 0..2

\* the awards of CalcAward and what AssignRewards leaves to the voters of it:
\* nothing, one unit, or an amount that does not fit an int64
Awards ==
    {[award |-> a, assigned |-> r] :
       a \in {-1, 3}, r \in {0, 1}}
    \cup {[award |-> 2 ^ Int64Bits, assigned |-> r] :
             r \in {2 ^ (Int64Bits - 1), 2 ^ Int64Bits}}

PackEnvs ==
    {e \in [sizeOk : BOOLEAN, formatOk : BOOLEAN, mempoolOk : BOOLEAN,
            sizeLimit : 0..(MaxTxSize + 1), timerOk : BOOLEAN, timerExt : BOOLEAN,
            timerSize : {1}, mempool : Mempools,
            award : {-1, 3, 2 ^ Int64Bits},
            assigned : {0, 1, 2 ^ (Int64Bits - 1), 2 ^ Int64Bits},
            voteTxs : {<<>>, <<Tx("vote", "v1", 1), Tx("vote", "v2", 1)>>},
            thaw : ThawAnswers] :
       [award |-> e.award, assigned |-> e.assigned] \in Awards}

\* packBlock(height 1) over a confirmed table: what GetThawTx answers is what it
\* reads in the table
InitPack ==
    /\ Halted
    /\ \E t \in ThawTables, r \in ReverseOks, e \in PackEnvs, f \in BOOLEAN :
         /\ e.thaw = GetThawTx(t, 1, r)
         /\ probe = [kind |-> "pack", e |-> e, flag |-> f, table |-> t,
                     reverseOk |-> r, done |-> FALSE,
                     out |-> [err |-> "nil", txs |-> <<>>]]

packBlockCall ==
    /\ probe.kind = "pack" /\ ~probe.done
    /\ probe' = [probe EXCEPT !.done = TRUE, !.out = packBlock(probe.e, probe.flag)]
    /\ UNCHANGED <<ledgerVars, stateLatest, minerMutex, minerQueue, syncFields,
                   isExit, pc, lv, mv, sv, iv, curTerm, tableVars, hist>>

SpecPack == InitPack /\ [][packBlockCall]_vars

\* the place of a group in the block
GroupRank(kind) ==
    CASE kind = "award" -> 1
      [] kind = "timer" -> 2
      [] kind = "mempool" -> 3
      [] kind = "thaw" -> 4
      [] kind = "vote" -> 5

\* the txs of one group, in the order of the block
GroupOf(txs, kind) == LET IsKind(tx) == tx.kind = kind IN SelectSeq(txs, IsKind)

\* C6.  Tx ordering: the txs of a packed block are the award tx, alone and first;
\* then the timer tx, there iff it carries extension outputs; then the selected
\* mempool txs, in the order of the mempool; then the thaw txs as GetThawTx
\* returned them; then the vote-reward txs, if any.  No tx of a later group
\* precedes a tx of an earlier group.
C6_TxOrdering ==
    (probe.done /\ probe.out.err = "nil") =>
      LET txs == probe.out.txs
          e == probe.e
          mem == GroupOf(txs, "mempool")
      IN /\ Len(txs) >= 1 /\ txs[1].kind = "award"
         /\ Len(GroupOf(txs, "award")) = 1
         /\ Len(GroupOf(txs, "timer")) = IF e.timerExt THEN 1 ELSE 0
         /\ \A k \in 1..Len(mem) : mem[k] \in {e.mempool[j] : j \in 1..Len(e.mempool)}
         /\ \A k \in 1..(Len(mem) - 1) : mem[k].key < mem[k + 1].key
         /\ GroupOf(txs, "thaw") = e.thaw.txs
         /\ GroupOf(txs, "vote") \in {<<>>, e.voteTxs}
         /\ \A k \in 1..(Len(txs) - 1) :
              GroupRank(txs[k].kind) <= GroupRank(txs[k + 1].kind)

\* a block with the five groups has been packed
C6_Witness ==
    /\ probe.done /\ probe.out.err = "nil"
    /\ {probe.out.txs[k].kind : k \in 1..Len(probe.out.txs)}
         = {"award", "timer", "mempool", "thaw", "vote"}
    /\ Len(GroupOf(probe.out.txs, "mempool")) >= 2
    /\ Len(GroupOf(probe.out.txs, "thaw")) = 2

\* C14.  Thaw at height h: a block packed at a height where the schedule holds
\* the entries e1..ek carries exactly k reverse-transfer txs, one per entry, in
\* the order of the schedule; it is never packed with fewer or none.
C14_ThawAtHeight ==
    (/\ probe.done /\ probe.out.err = "nil"
     /\ Has(probe.table, KNode) /\ 1 \in DOMAIN probe.table[KNode])
    => LET details == probe.table[KNode][1]
       IN GroupOf(probe.out.txs, "thaw")
            = [k \in 1..Len(details) |->
                 Tx("thaw", details[k].address, details[k].amount)]

----------------------------------------------------------------------------
(* ClearThawTx on its own: every frozen-assets row within the bounds whose   *)
(* total is the sum of its details                                          *)

\* one detail of a row: an amount and the height it thaws at
Details == [amount : 1..MaxTxSize, height : 0..(MaxHeight + 1)]

\* the maps from some of the keys ks to details
DetailMaps(ks) == UNION {[S -> Details] : S \in SUBSET ks}

\* the rows a node can hold: the total is what the details add up to
ThawRows ==
    {[total |-> SumAmounts(f) + SumAmounts(t), frozenDetail |-> f, thawDetail |-> t] :
     f \in {EmptyMap, [k \in {"f1"} |-> [amount |-> 1, height |-> 0]]},
     t \in DetailMaps(ThawTags)}

\* the confirmed table with the row of address A, the row of address B and a
\* schedule that thaws A, or A then B, at height
ThawTable(row, height, both) ==
    (KNode :> [h \in {height} |->
                 IF both THEN <<[address |-> "A", amount |-> 1],
                                [address |-> "B", amount |-> 1]>>
                 ELSE <<[address |-> "A", amount |-> 1]>>])
    @@ (KAmount("A") :> row) @@ (KAmount("B") :> InitRow)

InitThaw ==
    /\ Halted
    /\ probe \in {[kind |-> "thaw", table |-> ThawTable(row, h, both), height |-> h,
                   writes |-> w, writeOk |-> ok, done |-> FALSE,
                   out |-> [table |-> EmptyMap, batch |-> EmptyMap, err |-> "nil"]] :
                  row \in ThawRows, h \in 0..MaxHeight, both \in BOOLEAN,
                  w \in {{}, {1, 2}}, ok \in BOOLEAN}

ClearThawTxCall ==
    /\ probe.kind = "thaw" /\ ~probe.done
    /\ probe' = [probe EXCEPT
                   !.done = TRUE,
                   !.out = ClearThawTx(probe.table, EmptyMap, probe.height,
                                       probe.writes, probe.writeOk)]
    /\ UNCHANGED <<ledgerVars, stateLatest, minerMutex, minerQueue, syncFields,
                   isExit, pc, lv, mv, sv, iv, curTerm, tableVars, hist>>

SpecThaw == InitThaw /\ [][ClearThawTxCall]_vars

\* total == sum(frozen_detail) + sum(thaw_detail.amount)
Conserved(row) == row.total = SumAmounts(row.frozenDetail) + SumAmounts(row.thawDetail)

\* the row of an address as ClearThawTx has rewritten it: written, or staged on
\* the batch when its write failed
RowAfter(a) == Commit(probe.out.table, probe.out.batch)[KAmount(a)]

\* the addresses the schedule entry of the probe lists
Thawed ==
    {probe.table[KNode][probe.height][k].address :
       k \in 1..Len(probe.table[KNode][probe.height])}

\* C7.  Thaw conservation: a row whose total is the sum of its frozen details and
\* of the amounts of its thaw details still is so after ClearThawTx(h) has
\* rewritten it; every thaw detail it has lost had a height <= h, and every thaw
\* detail with a height > h is kept as it was.
C7_ThawConservation ==
    probe.done =>
      \A a \in Thawed :
        LET before == probe.table[KAmount(a)]
            after == RowAfter(a)
        IN Conserved(before) =>
             /\ Conserved(after)
             /\ after.frozenDetail = before.frozenDetail
             /\ DOMAIN after.thawDetail \subseteq DOMAIN before.thawDetail
             /\ \A k \in DOMAIN before.thawDetail :
                  IF before.thawDetail[k].height > probe.height
                  THEN /\ k \in DOMAIN after.thawDetail
                       /\ after.thawDetail[k] = before.thawDetail[k]
                  ELSE k \notin DOMAIN after.thawDetail

\* a row has lost one thaw detail and kept the other, and its total has gone down
\* by the amount of the one it lost
C7_Witness ==
    /\ probe.done
    /\ Cardinality(DOMAIN probe.table[KAmount("A")].thawDetail) = 2
    /\ Cardinality(DOMAIN RowAfter("A").thawDetail) = 1
    /\ RowAfter("A").total < probe.table[KAmount("A")].total
    /\ probe.out.err = "nil"

----------------------------------------------------------------------------
(* broadcastBlock on its own: every BlockBroadcastMode of the engine          *)
(* configuration, every produced block, the network sending or failing        *)

BlockBroadcastModes == {"Full_BroadCast_Mode", "Interactive_BroadCast_Mode",
                        "Mixed_BroadCast_Mode"}

\* broadcastBlock: the message handed to Net.SendMessage.  In the interactive
\* mode it is NEW_BLOCKID over a block that holds the block id alone, otherwise
\* SENDBLOCK over the block
broadcastBlock(mode, block) ==
    IF mode = "Interactive_BroadCast_Mode"
    THEN [type |-> "NEW_BLOCKID", data |-> [blockid |-> block.blockid]]
    ELSE [type |-> "SENDBLOCK", data |-> block]

\* the blocks mining produces: a block of the chain with its transactions
ProducedBlocks ==
    {[blockid |-> id, preHash |-> PreOf(id), height |-> HeightOf(id), txs |-> m] :
       id \in BlockIds \ {Genesis}, m \in Mempools}

InitBroadcast ==
    /\ Halted
    /\ probe \in {[kind |-> "broadcast", mode |-> mode, block |-> b, sendOk |-> ok,
                   done |-> FALSE, sent |-> <<>>] :
                    mode \in BlockBroadcastModes, b \in ProducedBlocks,
                    ok \in BOOLEAN}

\* the goroutine of mining's step 6 runs: the message goes out unless
\* SendMessage fails, which is logged
broadcastBlockCall ==
    /\ probe.kind = "broadcast" /\ ~probe.done
    /\ probe' = [probe EXCEPT !.done = TRUE,
                              !.sent = IF probe.sendOk
                                       THEN <<broadcastBlock(probe.mode, probe.block)>>
                                       ELSE <<>>]
    /\ UNCHANGED <<ledgerVars, stateLatest, minerMutex, minerQueue, syncFields,
                   isExit, pc, lv, mv, sv, iv, curTerm, tableVars, hist>>

SpecBroadcast == InitBroadcast /\ [][broadcastBlockCall]_vars

\* C16.  Broadcast by the originator: whatever BlockBroadcastMode is configured,
\* the message of a produced block is SENDBLOCK and carries the full block,
\* never NEW_BLOCKID
C16_OriginatorFull ==
    probe.done =>
      \A k \in DOMAIN probe.sent :
        probe.sent[k].type = "SENDBLOCK" /\ probe.sent[k].data = probe.block

----------------------------------------------------------------------------
(* confirmBlockForMiner on its own: every answer of the consensus, of the    *)
(* ledger and of the state machine, for every block                          *)

\* what Ledger.ConfirmBlock may report: a failure, an orphan, a block of the trunk
ConfirmStatuses ==
    {[succ |-> FALSE, orphan |-> FALSE], [succ |-> TRUE, orphan |-> TRUE],
     [succ |-> TRUE, orphan |-> FALSE]}

\* a confirm pipeline that plays an orphan too
confirmBlockForMinerPlayOrphan(block, calcOk, status, playOk, processOk) ==
    IF ~calcOk
    THEN [calls |-> <<"CalculateBlock">>, played |-> NilHash,
          err |-> "consensus calculate block failed"]
    ELSE IF ~status.succ
    THEN [calls |-> <<"CalculateBlock", "ConfirmBlock">>, played |-> NilHash,
          err |-> "ledger confirm block error"]
    ELSE IF ~playOk
    THEN [calls |-> <<"CalculateBlock", "ConfirmBlock", "PlayForMiner">>,
          played |-> NilHash, err |-> "state play error"]
    ELSE [calls |-> <<"CalculateBlock", "ConfirmBlock", "PlayForMiner",
                      "ProcessConfirmBlock">>,
          played |-> block.blockid,
          err |-> IF processOk THEN "nil" ELSE "consensus confirm block error"]

\* confirmBlockForMiner: the calls it makes on its collaborators, in their order,
\* the block the state machine has played, and the error it returns
confirmBlockForMiner(block, calcOk, status, playOk, processOk) ==
    IF ~calcOk
    THEN [calls |-> <<"CalculateBlock">>, played |-> NilHash,
          err |-> "consensus calculate block failed"]
    ELSE IF ~status.succ
    THEN [calls |-> <<"CalculateBlock", "ConfirmBlock">>, played |-> NilHash,
          err |-> "ledger confirm block error"]
    ELSE IF status.orphan
    THEN [calls |-> <<"CalculateBlock", "ConfirmBlock">>, played |-> NilHash,
          err |-> "nil"]
    ELSE IF ~playOk
    THEN [calls |-> <<"CalculateBlock", "ConfirmBlock", "PlayForMiner">>,
          played |-> NilHash, err |-> "state play error"]
    ELSE [calls |-> <<"CalculateBlock", "ConfirmBlock", "PlayForMiner",
                      "ProcessConfirmBlock">>,
          played |-> block.blockid,
          err |-> IF processOk THEN "nil" ELSE "consensus confirm block error"]

InitConfirm ==
    /\ Halted
    /\ probe \in {[kind |-> "confirm", block |-> Blk(id), calcOk |-> c, status |-> st,
                   playOk |-> pl, processOk |-> pr, done |-> FALSE,
                   out |-> [calls |-> <<>>, played |-> NilHash, err |-> "nil"]] :
                    id \in BlockIds \ {Genesis}, c \in BOOLEAN,
                    st \in ConfirmStatuses, pl \in BOOLEAN, pr \in BOOLEAN}

confirmBlockForMinerCall ==
    /\ probe.kind = "confirm" /\ ~probe.done
    /\ probe' = [probe EXCEPT !.done = TRUE,
                              !.out = confirmBlockForMiner(probe.block, probe.calcOk,
                                                           probe.status, probe.playOk,
                                                           probe.processOk)]
    /\ UNCHANGED <<ledgerVars, stateLatest, minerMutex, minerQueue, syncFields,
                   isExit, pc, lv, mv, sv, iv, curTerm, tableVars, hist>>

SpecConfirm == InitConfirm /\ [][confirmBlockForMinerCall]_vars

\* C21.  Confirm pipeline order for a mined block: the calls are a prefix of
\* CalculateBlock, Ledger.ConfirmBlock, State.PlayForMiner,
\* Consensus.ProcessConfirmBlock; a call is made only when every call before it
\* has succeeded, and it is made then unless the ledger has reported an orphan;
\* on an orphan the pipeline returns nil without PlayForMiner and
\* ProcessConfirmBlock; when Ledger.ConfirmBlock fails an error is returned and
\* the state machine is not played; nil is returned only when every call made
\* has succeeded.
C21_ConfirmPipeline ==
    probe.done =>
      LET Pipeline == <<"CalculateBlock", "ConfirmBlock", "PlayForMiner",
                        "ProcessConfirmBlock">>
          calls == probe.out.calls
          ok == <<probe.calcOk, probe.status.succ, probe.playOk, probe.processOk>>
          made(k) == k <= Len(calls)
      IN /\ Len(calls) \in 1..4
         /\ calls = SubSeq(Pipeline, 1, Len(calls))
         /\ \A k \in 2..4 :
              made(k) <=> (/\ \A j \in 1..(k - 1) : ok[j]
                           /\ ~(probe.status.orphan /\ k > 2))
         /\ (probe.calcOk /\ probe.status.succ /\ probe.status.orphan)
            => (probe.out.err = "nil" /\ calls = SubSeq(Pipeline, 1, 2))
         /\ (probe.calcOk /\ ~probe.status.succ)
            => (probe.out.err # "nil" /\ ~made(3))
         /\ probe.out.played = (IF made(3) /\ probe.playOk THEN probe.block.blockid
                                ELSE NilHash)
         /\ probe.out.err = "nil" <=> \A k \in 1..Len(calls) : ok[k]

\* the ledger has reported the mined block as an orphan: nil after two calls
C21_Witness ==
    /\ probe.done /\ probe.kind = "confirm"
    /\ probe.calcOk /\ probe.status.succ /\ probe.status.orphan
    /\ probe.playOk /\ Len(probe.out.calls) = 2 /\ probe.out.err = "nil"
    /\ probe.out.played = NilHash

----------------------------------------------------------------------------
----------------------------------------------------------------------------
\* C23.  Sync target gate decided under the mutex: the step of trySyncBlock after
\* the lock ignores the target when its height is below inSyncTargetHeight, or
\* its id is inSyncTargetBlockId, or the ledger holds it: then it changes
\* neither the ledger, the state machine nor the inSyncTarget fields, goes to
\* the release of the mutex and returns nil; otherwise it records the target in
\* (inSyncTargetHeight, inSyncTargetBlockId) before any backfill.  The walk, the
\* backfill and the batch confirm of a thread run only under its mutex hold and
\* for the recorded target.
C23_GateUnderMutex ==
    [][\A t \in Threads :
         LET target == sv[t].target
             step == pc'[t] # pc[t]
             fails == \/ target.height < inSyncTargetHeight
                      \/ target.blockid = inSyncTargetBlockId
                      \/ target.blockid \in ledgerBlocks
         IN /\ (step /\ pc[t] = "ts_gate") =>
                 /\ minerMutex = t
                 /\ UNCHANGED <<ledgerVars, stateLatest, minerMutex>>
                 /\ sv'[t] = sv[t]
                 /\ IF fails
                    THEN /\ UNCHANGED syncFields
                         /\ sv[t].err = "nil"
                         /\ pc'[t] = "ts_unlock"
                    ELSE /\ inSyncTargetHeight' = target.height
                         /\ inSyncTargetBlockId' = target.blockid
                         /\ pc'[t] = "ts_walk"
            /\ (step /\ pc[t] = "ts_unlock" /\ sv[t].err = "nil") =>
                 /\ UNCHANGED <<ledgerVars, stateLatest, syncFields>>
                 /\ IF t = LoopT THEN lv'.err = "nil" ELSE iv'[t].ret = "nil"
            /\ pc'[t] \in {"ts_walk", "sb_start", "bc_confirm", "bc_play",
                            "bc_process", "bc_ret"} =>
                 /\ minerMutex' = t
                 /\ sv'[t].target = target
                 /\ inSyncTargetHeight' = target.height
                 /\ inSyncTargetBlockId' = target.blockid
                 /\ pc[t] = "ts_gate" => ~fails
            /\ pending' # pending => \E u \in Threads : pc[u] = "sb_start" /\ minerMutex = u
      ]_vars

\* a pushed block has passed the unlocked check of ProcBlock, and under the mutex
\* it is below the target of a sync that was recorded in between
C23_Witness ==
    \E t \in IngressThreads :
      /\ pc[t] = "ts_gate" /\ minerMutex = t
      /\ sv[t].target.height < inSyncTargetHeight
      /\ ~ExistBlock(sv[t].target.blockid)

----------------------------------------------------------------------------
\* C24 as stated.  Sync error reset: whenever trySyncBlock fails under the mutex,
\* at the release (inSyncTargetHeight, inSyncTargetBlockId) is the ledger meta
\* (trunk_height, tip_block_id), so that a retry with the same target passes the
\* gate; after a successful or an ignored sync the fields are not reset.
C24_ResetAllowsRetry ==
    [][\A t \in Threads :
         (pc[t] = "ts_unlock" /\ pc'[t] # "ts_unlock") =>
           LET target == sv[t].target
           IN IF sv[t].err # "nil"
              THEN /\ inSyncTargetHeight' = TrunkHeight
                   /\ inSyncTargetBlockId' = ledgerTip
                   /\ minerMutex' = Free
                   /\ UNCHANGED ledgerVars
                   /\ ~(\/ target.height < inSyncTargetHeight'
                        \/ target.blockid = inSyncTargetBlockId'
                        \/ target.blockid \in ledgerBlocks')
              ELSE UNCHANGED syncFields /\ minerMutex' = Free
      ]_vars

\* C24.  Sync error reset: whenever trySyncBlock fails under the mutex, at the
\* release (inSyncTargetHeight, inSyncTargetBlockId) is the ledger meta
\* (trunk_height, tip_block_id); a retry with the same target then passes the
\* gate exactly when the target is not in the ledger and its height is not
\* below the trunk height; after a successful or an ignored sync the fields
\* are not reset.
C24_ErrorReset ==
    [][\A t \in Threads :
         (pc[t] = "ts_unlock" /\ pc'[t] # "ts_unlock") =>
           LET target == sv[t].target
           IN IF sv[t].err # "nil"
              THEN /\ inSyncTargetHeight' = TrunkHeight
                   /\ inSyncTargetBlockId' = ledgerTip
                   /\ minerMutex' = Free
                   /\ UNCHANGED ledgerVars
                   /\ ~(\/ target.height < inSyncTargetHeight'
                        \/ target.blockid = inSyncTargetBlockId'
                        \/ target.blockid \in ledgerBlocks')
                      <=> (/\ target.blockid \notin ledgerBlocks
                           /\ target.height >= TrunkHeight)
              ELSE UNCHANGED syncFields /\ minerMutex' = Free
      ]_vars

\* a sync has failed after a part of its batch was confirmed: the fields are
\* about to be reset to a ledger meta that differs from the recorded target
C24_Witness ==
    \E t \in Threads :
      /\ pc[t] = "ts_unlock" /\ sv[t].err # "nil" /\ minerMutex = t
      /\ inSyncTargetBlockId = sv[t].target.blockid
      /\ ledgerTip # Genesis /\ ledgerTip # sv[t].target.blockid
      /\ ~ExistBlock(sv[t].target.blockid)

----------------------------------------------------------------------------
(* downloadMissBlock step by step, with neighbours that answer GET_BLOCK by  *)
(* any block: the id of the answer need not be the id asked for, and its    *)
(* PreHash and Height are what the neighbour says                            *)

\* the ids recorded of blkIds; the appends beyond are made and not recorded
MaxBackfillIds == 4

PeerHashes == {<<"x">>, <<"y">>}

\* the blocks a neighbour may answer; a block that names itself as its
\* predecessor is left out, a cycle of two blocks stands for the cycles
PeerBlocks ==
    {b \in [blockid : PeerHashes, preHash : PeerHashes \cup {Genesis, NilHash},
            height : 0..1] : b.preHash # b.blockid}

\* Ledger.SavePendingBlock(block): the pending table is keyed by the block id
SavePendingBlock(block) ==
    {p \in pending : p.blockid # block.blockid} \cup {block}

\* blkIds = append(blkIds, id)
AppendId(ids, id) == IF Len(ids) < MaxBackfillIds THEN Append(ids, id) ELSE ids

InitBackfill ==
    /\ Halted
    /\ probe \in {[kind |-> "backfill", targetBlock |-> b, beginBlock |-> NilBlock,
                    blkIds |-> <<>>, at |-> "save", fetched |-> 0, done |-> FALSE,
                    err |-> "nil"] : b \in PeerBlocks}

\* the target is saved as pending and is the first id
downloadMissBlockSave ==
    /\ probe.kind = "backfill" /\ probe.at = "save"
    /\ \E saveOk \in BOOLEAN :
         IF saveOk
         THEN /\ pending' = SavePendingBlock(probe.targetBlock)
              /\ probe' = [probe EXCEPT !.blkIds = <<probe.targetBlock.blockid>>,
                                        !.beginBlock = probe.targetBlock,
                                        !.at = "loop"]
         ELSE /\ probe' = [probe EXCEPT !.at = "return", !.done = TRUE,
                                        !.err = "save pending block error"]
              /\ UNCHANGED pending
    /\ UNCHANGED <<ledgerBlocks, ledgerTip, stateLatest, minerMutex, minerQueue,
                   syncFields, isExit, pc, lv, mv, sv, iv, curTerm, tableVars, hist>>

\* one test of the loop condition and one run of the loop body
downloadMissBlockLoop ==
    /\ probe.kind = "backfill" /\ probe.at = "loop"
    /\ LET beginBlock == probe.beginBlock
       IN IF ExistBlock(beginBlock.preHash)
          THEN /\ probe' = [probe EXCEPT !.at = "return", !.done = TRUE]
               /\ UNCHANGED pending
          ELSE IF Len(beginBlock.preHash) <= 0 \/ beginBlock.height = 0
          THEN /\ probe' = [probe EXCEPT !.at = "return", !.done = TRUE,
                                         !.blkIds = <<>>,
                                         !.err = "ErrGenesisBlockDiff"]
               /\ UNCHANGED pending
          ELSE IF HasPending(beginBlock.preHash)
          THEN LET block == GetPendingBlock(beginBlock.preHash)
               IN /\ probe' = [probe EXCEPT !.beginBlock = block,
                                            !.blkIds = AppendId(@, block.blockid)]
                  /\ UNCHANGED pending
          ELSE \E getOk \in BOOLEAN, block \in PeerBlocks, saveOk \in BOOLEAN :
                 IF ~getOk
                 THEN /\ probe' = [probe EXCEPT !.at = "return", !.done = TRUE,
                                                !.err = "get block error"]
                      /\ UNCHANGED pending
                 ELSE IF ~saveOk
                 THEN /\ probe' = [probe EXCEPT !.at = "return", !.done = TRUE,
                                                !.fetched = 1,
                                                !.err = "save pending block error"]
                      /\ UNCHANGED pending
                 ELSE /\ pending' = SavePendingBlock(block)
                      /\ probe' = [probe EXCEPT !.beginBlock = block,
                                                !.fetched = 1,
                                                !.blkIds = AppendId(@, block.blockid)]
    /\ UNCHANGED <<ledgerBlocks, ledgerTip, stateLatest, minerMutex, minerQueue,
                   syncFields, isExit, pc, lv, mv, sv, iv, curTerm, tableVars, hist>>

NextBackfill == downloadMissBlockSave \/ downloadMissBlockLoop

\* the thread that runs downloadMissBlock goes on
SpecBackfill == InitBackfill /\ [][NextBackfill]_vars /\ WF_vars(NextBackfill)

\* C25.  Backfill terminates for every target and every behaviour of the
\* neighbours that answer GET_BLOCK, blocks of another id and PreHash links that
\* form a cycle included: downloadMissBlock returns, having reached a block
\* whose PreHash is in the ledger, or with ErrGenesisBlockDiff, or with a fetch
\* or save error.
C25_BackfillTerminates == <>(probe.done)

\* downloadMissBlock is in its loop on a block it has already collected
C25_Cycle ==
    /\ probe.kind = "backfill" /\ probe.at = "loop" /\ probe.fetched = 1
    /\ Len(probe.blkIds) = MaxBackfillIds
    /\ \E i, j \in 1..Len(probe.blkIds) : i < j /\ probe.blkIds[i] = probe.blkIds[j]

----------------------------------------------------------------------------
(* trySyncBlock without a target, up to the lock: the statuses of the        *)
(* neighbours in any order of arrival, several of them of one trunk height   *)

MaxResponses == 3

\* the statuses the neighbours answer: decodable or not, with the trunk height
\* of their ledger meta and their tip block
StatusResponses ==
    {[decoded |-> d, block |-> Blk(id), trunkHeight |-> h] :
       d \in BOOLEAN, id \in NetIds, h \in 1..MaxHeight}

\* the replies to the confirmation probe of one block: accepted, refused, or the
\* network fails
ProbeReplies ==
    {[sendOk |-> TRUE, messages |-> <<"trunk">>],
     [sendOk |-> TRUE, messages |-> <<"nottrunk", "bad", "bad">>],
     [sendOk |-> FALSE, messages |-> <<>>]}

\* the statuses in their order of arrival
ArrivalOrder(bcStatus) == {bcStatus}

\* sort.Sort(BCSByHeight(bcStatus)): the sort is not stable, so the statuses of
\* one trunk height come in any order
SortedOrders(bcStatus) ==
    {t \in {[k \in 1..Len(bcStatus) |-> bcStatus[f[k]]] :
               f \in Permutations(1..Len(bcStatus))} :
       \A i, j \in 1..Len(t) : i < j => ~BCSByHeight(t[j], t[i])}

InitLongest ==
    /\ Halted
    /\ \E n \in 0..MaxResponses :
         \E responses \in [1..n -> StatusResponses], confirm \in [NetIds -> ProbeReplies],
            sendOk \in BOOLEAN :
           probe = [kind |-> "longest", sendOk |-> sendOk, responses |-> responses,
                    confirm |-> confirm, done |-> FALSE, at |-> "call",
                    targetBlock |-> NilBlock, err |-> "nil"]

\* trySyncBlock(ctx, nil) up to t.minerMutex.Lock()
trySyncBlockLongest ==
    /\ probe.kind = "longest" /\ ~probe.done
    /\ \E bcStatus \in SortedOrders(SelectSeq(probe.responses, IsDecoded)) :
         LET r == IF ~probe.sendOk
                  THEN [block |-> NilBlock, err |-> "get block chain status error"]
                  ELSE firstConfirmed(bcStatus, probe.confirm)
         IN probe' = IF r.err # "nil"
                     THEN [probe EXCEPT
                             !.done = TRUE, !.at = "return",
                             !.err = "try sync block get whole network longest block failed"]
                     ELSE [probe EXCEPT !.done = TRUE, !.at = "lock",
                                        !.targetBlock = r.block]
    /\ UNCHANGED <<ledgerVars, stateLatest, minerMutex, minerQueue, syncFields,
                   isExit, pc, lv, mv, sv, iv, curTerm, tableVars, hist>>

SpecLongest == InitLongest /\ [][trySyncBlockLongest]_vars

----------------------------------------------------------------------------
\* C27.  Mempool selection is an order-stable prefix: the mempool txs of a packed
\* block are the first n txs of State.GetUnconfirmedTx, in its order, where n is
\* the largest number whose cumulative size fits the limit handed to
\* getUnconfirmedTx (none when even the first does not fit); the selection stops
\* at the first tx that would exceed the limit and takes no tx behind it.
C27_MempoolPrefix ==
    (probe.done /\ probe.out.err = "nil") =>
      LET e == probe.e
          IsMempool(tx) == tx.kind = "mempool"
          mem == SelectSeq(probe.out.txs, IsMempool)
          n == Len(mem)
          limit == IF e.timerExt THEN e.sizeLimit - e.timerSize ELSE e.sizeLimit
          size(k) == SumAmounts(SubSeq(e.mempool, 1, k))
      IN /\ n <= Len(e.mempool)
         /\ mem = SubSeq(e.mempool, 1, n)
         /\ n > 0 => size(n) <= limit
         /\ n < Len(e.mempool) => size(n + 1) > limit

\* the second tx of the mempool does not fit, the third one would: the block
\* holds the first tx only
C27_Witness ==
    /\ probe.kind = "pack" /\ probe.done /\ probe.out.err = "nil"
    /\ Len(probe.e.mempool) = 3 /\ ~probe.e.timerExt /\ probe.e.sizeLimit = 2
    /\ probe.e.mempool[1].amount = 1 /\ probe.e.mempool[2].amount = 2
    /\ probe.e.mempool[3].amount = 1
    /\ \E k \in DOMAIN probe.out.txs :
         probe.out.txs[k].kind = "mempool" /\ probe.out.txs[k].key = 1
    /\ \A k \in DOMAIN probe.out.txs :
         probe.out.txs[k].kind = "mempool" => probe.out.txs[k].key = 1

----------------------------------------------------------------------------
\* proto.Size(awardTx): the award tx has an output and a description, so its
\* size is positive; the least value is taken
AwardTxSize == 1

\* C28.  Block size budget: in a packed block that carries mempool txs, the total
\* size of the mempool txs is at most
\* size_limit - size(awardTx) - size(timerTx if included), size_limit being
\* State.MaxTxSizePerBlock; hence award, timer and mempool txs together never
\* exceed size_limit.
C28_SizeBudget ==
    (probe.done /\ probe.out.err = "nil") =>
      LET e == probe.e
          IsMempool(tx) == tx.kind = "mempool"
          mem == SelectSeq(probe.out.txs, IsMempool)
          timer == IF e.timerExt THEN e.timerSize ELSE 0
      IN Len(mem) > 0 =>
           /\ SumAmounts(mem) <= e.sizeLimit - AwardTxSize - timer
           /\ AwardTxSize + timer + SumAmounts(mem) <= e.sizeLimit

\* the mempool txs of a packed block fill the whole of MaxTxSizePerBlock, and
\* the award tx comes on top
C28_OverBudget ==
    /\ probe.kind = "pack" /\ probe.done /\ probe.out.err = "nil"
    /\ ~probe.e.timerExt /\ probe.e.sizeLimit = 2
    /\ Len(probe.e.mempool) = 2
    /\ \A k \in 1..2 : probe.e.mempool[k].amount = 1
    /\ \A k \in 1..2 : \E j \in DOMAIN probe.out.txs :
         probe.out.txs[j].kind = "mempool" /\ probe.out.txs[j].key = k

----------------------------------------------------------------------------
\* C29.  Award split: amount = CalcAward(height) >= 0; the award tx is for
\* amount - remainAward, where remainAward is 0 at a new-cycle boundary (flag
\* true) and AssignRewards(miner, amount) otherwise; the vote-reward txs of
\* GenerateVoteAward are in the block exactly when remainAward > 0 and the block
\* is not at a new-cycle boundary, whatever the magnitude of remainAward; a
\* negative CalcAward gives an error and no block.
C29_AwardSplit ==
    probe.done =>
      LET e == probe.e
          txs == probe.out.txs
          IsVote(tx) == tx.kind = "vote"
          remainAward == IF probe.flag THEN 0 ELSE e.assigned
      IN /\ (e.sizeOk /\ e.timerOk /\ e.mempoolOk /\ e.award < 0)
            => (probe.out.err # "nil" /\ txs = <<>>)
         /\ probe.out.err = "nil" =>
              /\ e.award >= 0
              /\ txs[1] = Tx("award", "miner", e.award - remainAward)
              /\ SelectSeq(txs, IsVote)
                   = (IF remainAward > 0 /\ ~probe.flag THEN e.voteTxs ELSE <<>>)

\* AssignRewards has left to the voters an amount that does not fit an int64,
\* and the packed block holds no vote-reward tx
C29_LargeRemainAward ==
    /\ probe.kind = "pack" /\ probe.done /\ probe.out.err = "nil"
    /\ ~probe.flag /\ probe.e.assigned = 2 ^ (Int64Bits - 1)
    /\ probe.e.voteTxs # <<>>
    /\ \A k \in DOMAIN probe.out.txs : probe.out.txs[k].kind # "vote"

----------------------------------------------------------------------------
\* C30.  ClearThawTx is a single atomic commit: when it has returned, with or
\* without an error, either the row of every address of the entry at the height
\* is rewritten and the entry is gone from the schedule, or the confirmed table
\* is as it was.
C30_AtomicCommit ==
    (probe.done /\ probe.kind = "thaw") =>
      LET before == probe.table
          after == probe.out.table
          entry == before[KNode][probe.height]
          listed == {entry[k].address : k \in 1..Len(entry)}
      IN \/ after = before
         \/ /\ \A a \in listed :
                 after[KAmount(a)] = PruneRow(before[KAmount(a)], probe.height)
            /\ probe.height \notin DOMAIN after[KNode]

\* ClearThawTx has returned an error: the row of an address has lost a thaw
\* detail, and the entry of the height is still in the schedule
C30_PartialCommit ==
    /\ probe.kind = "thaw" /\ probe.done /\ probe.out.err # "nil"
    /\ probe.out.table[KAmount("A")] # probe.table[KAmount("A")]
    /\ probe.height \in DOMAIN probe.out.table[KNode]

----------------------------------------------------------------------------
\* C31.  Transient errors abort the iteration: in an iteration whose
\* top-of-iteration State.Walk or CompeteMaster returned an error, the loop calls
\* neither trySyncBlock nor mining and, unless the exit was requested, it sleeps
\* (the error is still set at the test of the sleep); and an error of trySyncBlock
\* prevents mining in the same iteration.
C31_TransientErrorsAbort ==
    [][LET failed == ~hist.competed
       IN /\ (pc[LoopT] = "l_sync" /\ failed)
               => (pc'[LoopT] \in {"l_sync", "l_mine"} /\ lv' = lv)
          /\ (pc[LoopT] = "l_mine" /\ (failed \/ lv.err # "nil"))
               => pc'[LoopT] \in {"l_mine", "l_clear"}
          /\ (pc[LoopT] = "l_update" /\ failed /\ ~isExit) => lv.err # "nil"]_vars

\* the walk of this iteration has failed, and the loop is in mining with the
\* election of an iteration before
C31_MinesAfterWalkError ==
    /\ ~hist.competed /\ lv.isMiner
    /\ pc[LoopT] \in {"m_pack", "m_truncate"}

----------------------------------------------------------------------------
\* C32.  The exit flag is observed at every phase boundary: once Stop has set
\* the flag, the mining loop starts no further phase of the iteration, neither
\* the cycle housekeeping (ReadTermTable), nor trySyncBlock, nor mining, nor
\* ClearThawTx.
C32_ExitAtPhaseBoundary ==
    [][isExit =>
         /\ ~(pc[LoopT] = "l_term" /\ pc'[LoopT] # "l_term")
         /\ ~(pc[LoopT] = "l_sync" /\ (pc'[LoopT] = "ts_lock" \/ lv' # lv))
         /\ ~(pc[LoopT] = "l_mine" /\ pc'[LoopT] \notin {"l_mine", "l_clear"})
         /\ ~(pc[LoopT] = "l_clear" /\ pc'[LoopT] # "l_clear")]_vars

----------------------------------------------------------------------------
\* C33.  No stale staged writes on the shared confirm batch: called with an
\* empty batch over a store whose Write succeeds, ReadTermTable,
\* UpdateCacheTable and ClearThawTx leave nothing staged on Ledger.ConfirmBatch
\* on any return path; so the Write of one of them commits no key that another
\* of them has staged.
C33_NoStaleStagedWrites ==
    [][LET Same(k) == /\ Has(confirmedTable, k) <=> Has(confirmedTable', k)
                      /\ Has(confirmedTable, k) => confirmedTable'[k] = confirmedTable[k]
           Returns(at) == pc[LoopT] = at /\ pc'[LoopT] # at
           All == 1..Cardinality(Addresses)
       IN /\ pc[LoopT] = "l_term"
               => \A termOk \in BOOLEAN :
                    ReadTermTable(confirmedTable, EmptyMap, curTerm, termOk,
                                  TRUE).batch = EmptyMap
          /\ pc[LoopT] = "l_cache"
               => \A order \in CandidateOrders(confirmedTable),
                     corrupt \in SUBSET Addresses :
                    UpdateCacheTable(confirmedTable, EmptyMap, order, corrupt,
                                     TRUE).batch = EmptyMap
          /\ pc[LoopT] = "l_clear"
               => ClearThawTx(confirmedTable, EmptyMap, TrunkHeight - 1, All,
                              TRUE).batch = EmptyMap
          /\ Returns("l_term")
               => /\ Same(KNode)
                  /\ \A a \in Addresses : Same(KCache(a)) /\ Same(KAmount(a))
          /\ Returns("l_cache")
               => /\ Same(KTerm) /\ Same(KNode)
                  /\ \A a \in Addresses : Same(KAmount(a))
          /\ Returns("l_clear")
               => /\ Same(KTerm)
                  /\ \A a \in Addresses : Same(KCache(a))]_vars

\* UpdateCacheTable has returned at a row it could not decode and the row of
\* another candidate is still staged when ClearThawTx is about to run
C33_StagedAtReturn ==
    /\ pc[LoopT] = "l_clear"
    /\ \E a \in Addresses : Has(confirmBatch, KCache(a))

----------------------------------------------------------------------------
\* the positions of a thread that holds the miner mutex, in trySyncBlock and in
\* mining
UnderMutex ==
    {"ts_gate", "ts_walk", "sb_start", "bc_confirm", "bc_play", "bc_process",
     "bc_ret", "ts_unlock", "m_truncate", "m_pack", "m_confirm", "m_play",
     "m_process", "m_done", "m_unlock"}

\* C34.  The miner mutex is held continuously across Ledger.ConfirmBlock, the
\* play of the block on the state machine and Consensus.ProcessConfirmBlock of
\* one block, in mining and in batch confirm: between these calls the thread
\* keeps the mutex, and no other thread takes a step of a confirm, a play, a
\* walk under the mutex or a truncation, nor changes the ledger.
C34_PipelineUnderMutex ==
    [][\A t \in Threads :
         pc[t] \in {"m_confirm", "m_play", "m_process",
                    "bc_confirm", "bc_play", "bc_process"}
         => /\ minerMutex = t /\ minerMutex' = t
            /\ \A u \in Threads \ {t} :
                 pc'[u] # pc[u]
                 => /\ pc[u] \notin UnderMutex /\ pc'[u] \notin UnderMutex
                    /\ ledgerVars' = ledgerVars]_vars

\* an ingress thread is between the play and the ProcessConfirmBlock of a block
\* of its batch while the elected mining loop waits for the mutex to mine
C34_Witness ==
    \E i \in IngressThreads :
      /\ pc[i] = "bc_process" /\ minerMutex = i
      /\ pc[LoopT] = "l_mine" /\ lv.isMiner /\ lv.err = "nil"

----------------------------------------------------------------------------
\* C35.  Post-sync re-walk: when syncBlock has run its backfill or its batch
\* confirm, with or without success, and the state tip differs from the ledger
\* tip, a State.Walk to the ledger tip is attempted (so a return without the walk
\* leaves the tips equal); and a sync whose batch confirm succeeded does not
\* return nil with the state tip different from the ledger tip.
C35_PostSyncReWalk ==
    [][\A t \in Threads :
         /\ (pc[t] = "sb_start" /\ pc'[t] = "ts_unlock" /\ sv'[t].err # "nil")
            => stateLatest' = ledgerTip'
         /\ (pc[t] = "bc_ret" /\ pc'[t] = "ts_unlock" /\ ledgerTip # stateLatest)
            => \E w \in Walk(ledgerTip) : stateLatest' = w.latest
         /\ (pc[t] = "bc_ret" /\ pc'[t] = "ts_unlock" /\ sv[t].err = "nil")
            => stateLatest' = ledgerTip']_vars

----------------------------------------------------------------------------
\* C36.  A confirmation probe never accepts a candidate on zero support: when
\* countConfirmBlock accepts, at least one reply says is_trunk_tip = true; an
\* empty list of replies, and a list of replies that all fail to decode, are
\* refused.
C36_NoZeroSupport ==
    (probe.kind = "quorum" /\ probe.done /\ probe.accepted)
    => CountOf(probe.messages, "trunk") >= 1

\* countConfirmBlock has accepted on a list of two replies that both failed to
\* decode
C36_AcceptedUndecodable ==
    /\ probe.kind = "quorum" /\ probe.done /\ probe.accepted
    /\ Len(probe.messages) = 2
    /\ CountOf(probe.messages, "trunk") = 0
    /\ CountOf(probe.messages, "nottrunk") = 0

----------------------------------------------------------------------------
\* C37.  Mining happens only at the elected height: when the loop produces a
\* block at height h, CompeteMaster was called in the same iteration, for the
\* height h, and returned isMiner = true without an error.
C37_MinesAtElectedHeight ==
    [][Produced => /\ hist.competed /\ lv.isMiner
                   /\ mv.block.height = HeightOf(lv.ledgerTipId) + 1]_vars

\* the loop has confirmed a block of height 2 in an iteration whose
\* CompeteMaster was called for height 1
C37_ProducedAboveElected ==
    /\ pc[LoopT] = "m_done" /\ mv.err = "nil"
    /\ hist.competed /\ lv.isMiner
    /\ HeightOf(lv.ledgerTipId) = 0 /\ mv.block.height = 2

----------------------------------------------------------------------------
\* C38.  The sync watermark never exceeds the ledger: whenever the miner mutex
\* is free, inSyncTargetHeight <= trunk height, so that the height gate of
\* ProcBlock lets through a block of height trunk height + 1.
C38_WatermarkBelowTrunk ==
    minerMutex = Free
    => /\ inSyncTargetHeight <= TrunkHeight
       /\ ~(TrunkHeight + 1 < inSyncTargetHeight)

----------------------------------------------------------------------------
\* C39.  No thaw is finalized without its payout: when the block this miner
\* produced at a height carried no reverse-transfer tx although the schedule
\* held an entry at that height (GetThawTx had failed), the ClearThawTx of the
\* loop neither removes that entry from the schedule nor rewrites the frozen
\* totals of its owners.
C39_NoThawWithoutPayout ==
    [][LET NoPayout(h) == h \in hist.unpaid /\ h \notin hist.paid
       IN (pc[LoopT] = "l_clear" /\ pc'[LoopT] # "l_clear"
                                 /\ Has(confirmedTable, KNode))
          => /\ \A h \in DOMAIN confirmedTable[KNode] :
                  NoPayout(h) => h \in DOMAIN confirmedTable'[KNode]
             /\ \A a \in Addresses :
                  (Has(confirmedTable, KAmount(a)) /\ NoPayout(TrunkHeight - 1))
                  => confirmedTable'[KAmount(a)] = confirmedTable[KAmount(a)]]_vars

\* the block of height 1 was produced without thaw txs, and the entry of height
\* 1 is gone from the schedule and the frozen row of its owner is rewritten
C39_FinalizedWithoutPayout ==
    /\ 1 \in hist.unpaid /\ 1 \notin hist.paid
    /\ Has(confirmedTable, KNode) /\ 1 \notin DOMAIN confirmedTable[KNode]
    /\ confirmedTable[KAmount("A")] # InitRow

----------------------------------------------------------------------------
\* C40.  The mining loop never walks the state to a stale tip: the State.Walk of
\* the consistency check at the top of an iteration targets the tip the ledger
\* has at the moment of the call, and it does not move a state machine that is
\* at the ledger tip away from it.
C40_WalkToCurrentTip ==
    [][(pc[LoopT] = "top" /\ pc'[LoopT] = "l_term"
                          /\ lv.ledgerTipId # lv.stateTipId)
       => /\ lv.ledgerTipId = ledgerTip
          /\ stateLatest = ledgerTip => stateLatest' = ledgerTip]_vars

====
